---- MODULE Spec2Model ----
(***************************************************************************)
(* Model of the HcloudNetwork reconciler of squint27/hcrm                  *)
(* (internal/controller/hcloudnetwork_controller.go) together with the     *)
(* store and the cloud provider it talks to.  One reconciliation pass is   *)
(* one action; the pass records the ordered list of the store and provider *)
(* calls it made, so that ordering properties are state predicates.        *)
(***************************************************************************)
EXTENDS Integers, Sequences, FiniteSets, TLC

(* ------------------------------ bounds ------------------------------- *)
\* highest metadata.generation the store hands out
MaxGen == 2
\* highest id the provider hands out to a network
MaxId == 2
\* width of an address in bits (an IPv4 address has 32; the model keeps 2)
AddrBits == 2

(* ----------------------------- constants ----------------------------- *)
finalizerName == "hcloud.bunskin.com/finalizer"
\* a finalizer token owned by some other controller sharing the record
otherFinalizer == "other.example.com/finalizer"
\* spec.name of the record; immutable, so one value
specName == "net"

(* ------------------------------ labels ------------------------------- *)
\* A Go map[string]string: nil, or a set of key/value pairs.
NilLabels == [nil |-> TRUE, kv |-> {}]
Labels(kvs) == [nil |-> FALSE, kv |-> kvs]
\* equality.Semantic.DeepEqual on two maps: a nil and an empty map are equal
SemanticDeepEqual(x, y) == x.kv = y.kv
\* json `omitempty` on a map field: an empty map is not written, and reads
\* back as nil
OmitEmpty(l) == IF l.kv = {} THEN NilLabels ELSE l

(* ------------------------------- CIDR -------------------------------- *)
\* A CIDR string as written in spec.ipRange / status.ipRange: empty,
\* malformed, or address/prefix.  An IPNet is a masked address and a prefix.
EmptyStr == [form |-> "empty", a |-> 0, l |-> 0]
BadCidr == [form |-> "bad", a |-> 0, l |-> 0]
Cidr(a, l) == [form |-> "cidr", a |-> a, l |-> l]
RECURSIVE Pow2(_)
Pow2(n) == IF n = 0 THEN 1 ELSE 2 * Pow2(n - 1)
Mask(a, l) == a - (a % Pow2(AddrBits - l))
\* net.ParseCIDR: the network of the string, or an error
ParseCIDR(s) ==
    IF s.form = "cidr" /\ s.l <= AddrBits
    THEN [err |-> FALSE, net |-> [a |-> Mask(s.a, s.l), l |-> s.l]]
    ELSE [err |-> TRUE, net |-> [a |-> 0, l |-> 0]]
\* (*net.IPNet).String()
IPNetString(n) == Cidr(n.a, n.l)

(* ---------------------------- conditions ----------------------------- *)
\* metav1.Condition; the message is kept as its format string's tag and the
\* id printed into it
Condition(status, reason, text, id, gen) ==
    [type |-> "Available", status |-> status, reason |-> reason,
     message |-> [text |-> text, id |-> id],
     observedGeneration |-> gen]

\* meta.FindStatusCondition: index of the condition of that type, 0 if none
FindStatusCondition(conds, type) ==
    IF \E i \in 1..Len(conds) : conds[i].type = type
    THEN CHOOSE i \in 1..Len(conds) :
            /\ conds[i].type = type
            /\ \A j \in 1..(i - 1) : conds[j].type # type
    ELSE 0

\* mutant: the new condition is appended whether the type is there or not
SetStatusConditionAppends(conds, new) == Append(conds, new)

\* meta.SetStatusCondition: append when the type is new, otherwise replace
\* in place (the five fields the controller sets; the time stamp the library
\* adds is not kept)
SetStatusCondition(conds, new) ==
    LET i == FindStatusCondition(conds, new.type) IN
    IF i = 0 THEN Append(conds, new) ELSE [conds EXCEPT ![i] = new]

(* ---------------------------- finalizers ----------------------------- *)
\* mutant: any finalizer counts as the controller's own
ContainsFinalizerAny(fs, tok) == Len(fs) > 0

\* controllerutil.ContainsFinalizer
ContainsFinalizer(fs, tok) == \E i \in 1..Len(fs) : fs[i] = tok
\* controllerutil.AddFinalizer: appended unless already there
AddFinalizer(fs, tok) == IF ContainsFinalizer(fs, tok) THEN fs ELSE Append(fs, tok)
\* mutant: removing a token clears the whole list
RemoveFinalizerAll(fs, tok) == <<>>
\* controllerutil.RemoveFinalizer: every occurrence is dropped, order kept
RemoveFinalizer(fs, tok) == SelectSeq(fs, LAMBDA x : x # tok)

(* --------------------------- sync policy ----------------------------- *)
\* values of the hcloud.bunskin.com/sync-policy annotation; "" is absent
NoPolicy == ""
\* mutant: the orphan policy is not looked at
MayDeleteExternalAlways(policy) == TRUE

\* deletion path: the external resource is drained unless the policy is orphan
MayDeleteExternal(policy) == policy # "orphan"
\* mutant: the read-only policy is not looked at
IsReadOnlyNever(policy) == FALSE

\* live path: finalizer, updates and creation are skipped only for read-only
IsReadOnly(policy) == policy = "read-only"

(* ------------------------- records and state ------------------------- *)
\* HcloudNetworkStatus / HcloudDnsZoneStatus before anything was written to
\* it; externalId is the NetworkId of the one and the ZoneId of the other
ZeroStatus ==
    [externalId |-> 0, ipRange |-> EmptyStr, labels |-> NilLabels,
     observedGeneration |-> 0, conditions |-> <<>>]
\* what a read of a key returns once the store has erased the record
AbsentRecord ==
    [crd |-> "", exists |-> FALSE, generation |-> 0,
     spec |-> [name |-> specName, ipRange |-> EmptyStr, labels |-> NilLabels],
     policy |-> NoPolicy, finalizers |-> <<>>, deletionTimestamp |-> FALSE,
     status |-> ZeroStatus]
\* a nil *hcloud.Network
NoNetwork ==
    [exists |-> FALSE, id |-> 0, name |-> "", ipRange |-> [a |-> 0, l |-> 0],
     labels |-> NilLabels]

\* one entry of the ordered list of calls a pass made; reqs are the requests
\* an adapter method sent to the provider's client while it ran
Ev(op, ok) ==
    [op |-> op, ok |-> ok, id |-> 0, labels |-> NilLabels, cidr |-> EmptyStr,
     reason |-> "", reqs |-> <<>>]
ProviderOps ==
    {"GetNetworkById", "GetNetworkByName", "CreateNetwork",
     "UpdateNetworkLabels", "UpdateNetworkCidr", "DeleteNetwork",
     "GetZoneById", "DeleteZone"}
MutationOps ==
    {"CreateNetwork", "UpdateNetworkLabels", "UpdateNetworkCidr", "DeleteNetwork",
     "DeleteZone"}
VARIABLES
    rec,      \* the HcloudNetwork or HcloudDnsZone record as persisted
    ext,      \* the provider's network or zone carrying spec.name, if any
    nextId,   \* the id the provider gives to the next resource it creates
    pass      \* the last reconciliation pass: what it saw, called and returned

vars == <<rec, ext, nextId, pass>>

\* the value of pass while no pass is being looked at: initially, and after
\* the record or the provider was touched from outside
\* ctrl.Result{}: no requeue asked for
EmptyResult == [requeue |-> FALSE, requeueAfter |-> 0]

NoPass ==
    [kind |-> "none", pre |-> AbsentRecord, preExt |-> NoNetwork,
     obj |-> AbsentRecord, calls |-> <<>>, err |-> FALSE,
     result |-> EmptyResult]

(* ------------------------- the store's client ------------------------ *)
\* reason of the Available condition of a status, "" if there is none
AvailableOf(status) ==
    LET i == FindStatusCondition(status.conditions, "Available") IN
    IF i = 0 THEN [status |-> "", reason |-> "", observedGeneration |-> 0,
                   message |-> [text |-> "", id |-> 0], type |-> ""]
    ELSE status.conditions[i]

\* r.Status().Update: writes the status subresource only and refreshes the
\* in-memory object from the stored one; on failure nothing is written
StatusUpdate(c, fail) ==
    IF fail
    THEN [c EXCEPT !.calls = Append(@, [Ev("Status.Update", FALSE) EXCEPT
                        !.reason = AvailableOf(c.obj.status).reason]),
                   !.werr = TRUE]
    ELSE LET st2 == [c.st EXCEPT !.status =
                        [c.obj.status EXCEPT !.labels = OmitEmpty(@)]]
         IN [c EXCEPT !.st = st2, !.obj = st2, !.werr = FALSE,
                      !.calls = Append(@, [Ev("Status.Update", TRUE) EXCEPT
                        !.reason = AvailableOf(c.obj.status).reason])]

\* r.Update: writes metadata and spec, not the status; the store erases a
\* record whose deletion was requested as soon as no finalizer is left
Update(c, op, fail) ==
    IF fail
    THEN [c EXCEPT !.calls = Append(@, Ev(op, FALSE)), !.werr = TRUE]
    ELSE LET st2 == [c.st EXCEPT !.policy = c.obj.policy,
                                 !.finalizers = c.obj.finalizers,
                                 !.spec = c.obj.spec]
             st3 == IF st2.deletionTimestamp /\ st2.finalizers = <<>>
                    THEN [AbsentRecord EXCEPT !.crd = st2.crd] ELSE st2
         IN [c EXCEPT !.st = st3, !.obj = st2, !.werr = FALSE,
                      !.calls = Append(@, Ev(op, TRUE))]

\* mutant: every return reports success
ReturnAlwaysNil(c, err) ==
    [c EXCEPT !.done = TRUE, !.err = FALSE, !.result = EmptyResult]

\* `return ctrl.Result{}, err`
Return(c, err) == [c EXCEPT !.done = TRUE, !.err = err, !.result = EmptyResult]

\* mutant: the condition is stamped with the status's watermark instead of
\* the record's generation
SetAvailableAtWatermark(c, status, reason, text, id) ==
    [c EXCEPT !.obj.status.conditions =
        SetStatusCondition(@, Condition(status, reason, text, id,
                                        c.obj.status.observedGeneration))]

\* sets the Available condition on the in-memory object
SetAvailable(c, status, reason, text, id) ==
    [c EXCEPT !.obj.status.conditions =
        SetStatusCondition(@, Condition(status, reason, text, id,
                                        c.obj.generation))]

\* mutant: the error branch returns nil instead of the error
FailWithSwallowed(c, f, reason, text) ==
    Return(StatusUpdate(SetAvailable(c, "False", reason, text, 0), f.errStatus),
           FALSE)

\* mutant: the error branch forgets the external id
FailWithClearsId(c, f, reason, text) ==
    Return(StatusUpdate(
               [SetAvailable(c, "False", reason, text, 0) EXCEPT
                    !.obj.status.externalId = 0],
               f.errStatus),
           TRUE)

\* mutant: the error branch records the generation as observed
FailWithMarksObserved(c, f, reason, text) ==
    Return(StatusUpdate(
               [SetAvailable(c, "False", reason, text, 0) EXCEPT
                    !.obj.status.observedGeneration = c.obj.generation],
               f.errStatus),
           TRUE)

\* mutant: the error branch asks the provider once more before it reports
FailWithAsksAgain(c, f, reason, text) ==
    Return(StatusUpdate(
               SetAvailable(
                   [c EXCEPT !.calls = Append(@, Ev("GetNetworkByName", TRUE))],
                   "False", reason, text, 0),
               f.errStatus),
           TRUE)

\* an error branch: set the condition, try to persist it (a failure is only
\* logged), return the error
FailWith(c, f, reason, text) ==
    Return(StatusUpdate(SetAvailable(c, "False", reason, text, 0), f.errStatus),
           TRUE)

(* ---------------------------- the provider --------------------------- *)
\* hcloudNetworkAdapter.GetNetworkById: not-found is (nil, nil)
GetNetworkById(c, id, fail) ==
    [c EXCEPT !.calls = Append(@, [Ev("GetNetworkById", ~fail) EXCEPT !.id = id]),
              !.perr = fail,
              !.network = IF ~fail /\ c.ext.exists /\ c.ext.id = id
                          THEN c.ext ELSE NoNetwork]

\* mutant: the lookup never matches the name
GetNetworkByNameNeverFinds(c, name, fail) ==
    [c EXCEPT !.calls = Append(@, Ev("GetNetworkByName", ~fail)),
              !.perr = fail,
              !.network = NoNetwork]

\* hcloudNetworkAdapter.GetNetworkByName: not-found is (nil, nil)
GetNetworkByName(c, name, fail) ==
    [c EXCEPT !.calls = Append(@, Ev("GetNetworkByName", ~fail)),
              !.perr = fail,
              !.network = IF ~fail /\ c.ext.exists /\ c.ext.name = name
                          THEN c.ext ELSE NoNetwork]

\* hcloudNetworkAdapter.DeleteNetwork
DeleteNetwork(c, network, fail) ==
    [c EXCEPT !.calls = Append(@, [Ev("DeleteNetwork", ~fail) EXCEPT
                                        !.id = network.id]),
              !.perr = fail,
              !.ext = IF ~fail /\ c.ext.id = network.id THEN NoNetwork ELSE @]

\* hcloudDnsZoneAdapter.GetZoneById: not-found is (nil, nil)
GetZoneById(c, id, fail) ==
    [c EXCEPT !.calls = Append(@, [Ev("GetZoneById", ~fail) EXCEPT !.id = id]),
              !.perr = fail,
              !.network = IF ~fail /\ c.ext.exists /\ c.ext.id = id
                          THEN c.ext ELSE NoNetwork]

\* hcloudDnsZoneAdapter.DeleteZone: the delete request, then the wait for its
\* action. A refused request leaves the zone; a wait that fails reports an
\* error for a deletion that was started, and the zone is gone
DeleteZone(c, zone, f) ==
    LET bad == f.site \in {"DeleteZone", "DeleteZoneWaitFor"}
        started == f.site # "DeleteZone"
    IN [c EXCEPT !.calls = Append(@, [Ev("DeleteZone", ~bad) EXCEPT
                                        !.id = zone.id]),
                 !.perr = bad,
                 !.ext = IF started /\ c.ext.id = zone.id THEN NoNetwork ELSE @]

\* mutant: the CIDR is handed to the provider whether it parses or not
CreateNetworkUnparsed(c, name, ipRange, labels, fail) ==
    LET p == ParseCIDR(ipRange)
        n == [exists |-> TRUE, id |-> c.nextId, name |-> name,
              ipRange |-> p.net, labels |-> Labels(labels.kv)]
    IN [c EXCEPT !.calls = Append(@, [Ev("CreateNetwork", ~fail) EXCEPT
                                        !.labels = labels, !.cidr = ipRange]),
                 !.perr = fail,
                 !.network = IF fail THEN NoNetwork ELSE n,
                 !.ext = IF fail THEN @ ELSE n,
                 !.nextId = IF fail THEN @ ELSE @ + 1]

\* hcloudNetworkAdapter.CreateNetwork: a CIDR that does not parse is refused
\* before the provider is asked
CreateNetwork(c, name, ipRange, labels, fail) ==
    LET p == ParseCIDR(ipRange)
        bad == p.err \/ fail
        n == [exists |-> TRUE, id |-> c.nextId, name |-> name,
              ipRange |-> p.net, labels |-> Labels(labels.kv)]
    IN [c EXCEPT !.calls = Append(@, [Ev("CreateNetwork", ~bad) EXCEPT
                                        !.labels = labels, !.cidr = ipRange]),
                 !.perr = bad,
                 !.network = IF bad THEN NoNetwork ELSE n,
                 !.ext = IF bad THEN @ ELSE n,
                 !.nextId = IF bad THEN @ ELSE @ + 1]

\* hcloudNetworkAdapter.UpdateNetworkLabels: the labels are replaced
UpdateNetworkLabels(c, network, labels, fail) ==
    LET n == [c.ext EXCEPT !.labels = Labels(labels.kv)]
    IN [c EXCEPT !.calls = Append(@, [Ev("UpdateNetworkLabels", ~fail) EXCEPT
                                        !.id = network.id, !.labels = labels]),
                 !.perr = fail,
                 !.network = IF fail THEN NoNetwork ELSE n,
                 !.ext = IF fail THEN @ ELSE n]

\* one request of an adapter method to the provider's client
Req(name, ok) == [req |-> name, ok |-> ok]
\* mutant: the network is read again without waiting for the action
CidrRequestsNoWait(cidr, f) ==
    IF ParseCIDR(cidr).err THEN <<>>
    ELSE IF f.site = "ChangeIPRange" THEN <<Req("ChangeIPRange", FALSE)>>
    ELSE IF f.site = "GetByIDAfterChange"
    THEN <<Req("ChangeIPRange", TRUE), Req("GetByID", FALSE)>>
    ELSE <<Req("ChangeIPRange", TRUE), Req("GetByID", TRUE)>>

\* the requests of hcloudNetworkAdapter.UpdateNetworkCidr, in order: nothing
\* when the CIDR does not parse, otherwise ChangeIPRange, Action.WaitFor and
\* Network.GetByID, each only if the one before succeeded
CidrRequests(cidr, f) ==
    IF ParseCIDR(cidr).err THEN <<>>
    ELSE IF f.site = "ChangeIPRange" THEN <<Req("ChangeIPRange", FALSE)>>
    ELSE IF f.site = "WaitFor"
    THEN <<Req("ChangeIPRange", TRUE), Req("WaitFor", FALSE)>>
    ELSE IF f.site = "GetByIDAfterChange"
    THEN <<Req("ChangeIPRange", TRUE), Req("WaitFor", TRUE),
           Req("GetByID", FALSE)>>
    ELSE <<Req("ChangeIPRange", TRUE), Req("WaitFor", TRUE),
           Req("GetByID", TRUE)>>

\* hcloudNetworkAdapter.UpdateNetworkCidr: parse, ChangeIPRange, wait for the
\* action, read the network again; the first failing step ends the call.
\* The range is changed once the request went through and its action
\* completed
UpdateNetworkCidr(c, network, cidr, f) ==
    LET p == ParseCIDR(cidr)
        reqs == CidrRequests(cidr, f)
        changed == \E i \in 1..Len(reqs) :
                      /\ reqs[i].req = "ChangeIPRange" /\ reqs[i].ok
                      /\ f.site # "WaitFor"
        bad == p.err \/ \E i \in 1..Len(reqs) : ~reqs[i].ok
        n == [c.ext EXCEPT !.ipRange = p.net]
    IN [c EXCEPT !.calls = Append(@, [Ev("UpdateNetworkCidr", ~bad) EXCEPT
                                        !.id = network.id, !.cidr = cidr,
                                        !.reqs = reqs]),
                 !.perr = bad,
                 !.network = IF bad THEN NoNetwork ELSE n,
                 !.ext = IF changed THEN n ELSE @]

(* ------------------------ the reconciliation pass -------------------- *)
\* mutant: a record that is not found is reported as an error
LoadAndMarkProgressingReportsNotFound(c, f) ==
    IF f.site = "Get" \/ ~c.st.exists
    THEN Return([c EXCEPT !.calls = Append(@, Ev("Get", FALSE)),
                          !.kind = IF f.site = "Get"
                                   THEN "loadfail" ELSE "absent"], TRUE)
    ELSE LET c1 == [c EXCEPT !.calls = Append(@, Ev("Get", TRUE)),
                             !.obj = c.st,
                             !.kind = IF c.st.deletionTimestamp
                                      THEN "deletion" ELSE "live"]
             c2 == SetAvailable(c1, "False", "Progressing", "in progress", 0)
             c3 == StatusUpdate(c2, f.site = "StatusProgressing")
         IN IF c3.werr THEN Return(c3, TRUE) ELSE c3

\* mutant: marking the record as in progress clears the watermark
LoadAndMarkProgressingResetsWatermark(c, f) ==
    IF f.site = "Get"
    THEN Return([c EXCEPT !.calls = Append(@, Ev("Get", FALSE)),
                          !.kind = "loadfail"], TRUE)
    ELSE IF ~c.st.exists
    THEN Return([c EXCEPT !.calls = Append(@, Ev("Get", TRUE)),
                          !.kind = "absent"], FALSE)
    ELSE LET c1 == [c EXCEPT !.calls = Append(@, Ev("Get", TRUE)),
                             !.obj = [c.st EXCEPT
                                        !.status.observedGeneration = 0],
                             !.kind = IF c.st.deletionTimestamp
                                      THEN "deletion" ELSE "live"]
             c2 == SetAvailable(c1, "False", "Progressing", "in progress", 0)
             c3 == StatusUpdate(c2, f.site = "StatusProgressing")
         IN IF c3.werr THEN Return(c3, TRUE) ELSE c3

\* r.Get and the Progressing condition every pass starts with
LoadAndMarkProgressing(c, f) ==
    IF f.site = "Get"
    THEN Return([c EXCEPT !.calls = Append(@, Ev("Get", FALSE)),
                          !.kind = "loadfail"], TRUE)
    ELSE IF ~c.st.exists
    THEN Return([c EXCEPT !.calls = Append(@, Ev("Get", TRUE)),
                          !.kind = "absent"], FALSE)
    ELSE LET c1 == [c EXCEPT !.calls = Append(@, Ev("Get", TRUE)),
                             !.obj = c.st,
                             !.kind = IF c.st.deletionTimestamp
                                      THEN "deletion" ELSE "live"]
             c2 == SetAvailable(c1, "False", "Progressing", "in progress", 0)
             c3 == StatusUpdate(c2, f.site = "StatusProgressing")
         IN IF c3.werr THEN Return(c3, TRUE) ELSE c3

\* mutant: DeleteNetwork is called without looking whether the network was
\* found
DrainExternalDeletesBlindly(c, f) ==
    IF c.obj.status.externalId # 0 /\ MayDeleteExternal(c.obj.policy)
    THEN LET c1 == GetNetworkById(c, c.obj.status.externalId,
                                  f.site = "GetNetworkById")
         IN IF c1.perr
            THEN FailWith(c1, f, "DeletionFailed", "get for deletion failed")
            ELSE LET c2 == DeleteNetwork(c1, c1.network,
                                         f.site = "DeleteNetwork")
                 IN IF c2.perr
                    THEN FailWith(c2, f, "DeletionFailed", "delete failed")
                    ELSE c2
    ELSE c

\* mutant: a failed DeleteNetwork is only logged and the pass goes on
DrainExternalIgnoresDeleteError(c, f) ==
    IF c.obj.status.externalId # 0 /\ MayDeleteExternal(c.obj.policy)
    THEN LET c1 == GetNetworkById(c, c.obj.status.externalId,
                                  f.site = "GetNetworkById")
         IN IF c1.perr
            THEN FailWith(c1, f, "DeletionFailed", "get for deletion failed")
            ELSE IF c1.network.exists
            THEN DeleteNetwork(c1, c1.network, f.site = "DeleteNetwork")
            ELSE c1
    ELSE c

\* deletion path of the zone reconciler: fetch the zone by id and delete it
\* if found
DrainExternalZone(c, f) ==
    IF c.obj.status.externalId # 0 /\ MayDeleteExternal(c.obj.policy)
    THEN LET c1 == GetZoneById(c, c.obj.status.externalId,
                               f.site = "GetZoneById")
         IN IF c1.perr
            THEN FailWith(c1, f, "DeletionFailed", "get for deletion failed")
            ELSE IF c1.network.exists
            THEN LET c2 == DeleteZone(c1, c1.network, f)
                 IN IF c2.perr
                    THEN FailWith(c2, f, "DeletionFailed", "delete failed")
                    ELSE c2
            ELSE c1
    ELSE c

\* deletion path: fetch the external network by id and delete it if found
DrainExternal(c, f) ==
    IF c.obj.status.externalId # 0 /\ MayDeleteExternal(c.obj.policy)
    THEN LET c1 == GetNetworkById(c, c.obj.status.externalId,
                                  f.site = "GetNetworkById")
         IN IF c1.perr
            THEN FailWith(c1, f, "DeletionFailed", "get for deletion failed")
            ELSE IF c1.network.exists
            THEN LET c2 == DeleteNetwork(c1, c1.network,
                                         f.site = "DeleteNetwork")
                 IN IF c2.perr
                    THEN FailWith(c2, f, "DeletionFailed", "delete failed")
                    ELSE c2
            ELSE c1
    ELSE c

\* `if hcloudNetwork.DeletionTimestamp != nil { ... }`, and the same block of
\* the zone reconciler
HandleDeletion(c, f) ==
    IF c.done \/ ~c.obj.deletionTimestamp THEN c
    ELSE LET c1 == SetAvailable(c, "False", "Deleting", "being deleted", 0)
             c2 == StatusUpdate(c1, f.site = "StatusDeleting")
         IN IF c2.werr THEN Return(c2, TRUE)
            ELSE IF ~ContainsFinalizer(c2.obj.finalizers, finalizerName)
            THEN Return(c2, FALSE)
            ELSE LET c3 == IF c2.obj.crd = "HcloudDnsZone"
                           THEN DrainExternalZone(c2, f)
                           ELSE DrainExternal(c2, f)
                 IN IF c3.done THEN c3
                    ELSE LET c4 == Update(
                                [c3 EXCEPT !.obj.finalizers =
                                    RemoveFinalizer(@, finalizerName)],
                                "Update.RemoveFinalizer",
                                f.site = "RemoveFinalizerUpdate")
                         IN Return(c4, c4.werr)

\* mutant: the default is applied to the object in memory and not written
DefaultSyncPolicyInMemory(c, f) ==
    IF c.done \/ c.obj.policy # NoPolicy THEN c
    ELSE [c EXCEPT !.obj.policy = "manage"]

\* default the sync policy annotation to manage
DefaultSyncPolicy(c, f) ==
    IF c.done \/ c.obj.policy # NoPolicy THEN c
    ELSE LET c1 == Update([c EXCEPT !.obj.policy = "manage"],
                          "Update.Annotation", f.site = "AnnotationUpdate")
         IN IF c1.werr THEN Return(c1, TRUE) ELSE c1

\* mutant: a failed write of the finalizer is only logged
EnsureFinalizerIgnoresWriteError(c, f) ==
    IF c.done THEN c
    ELSE IF ~ContainsFinalizer(c.obj.finalizers, finalizerName)
            /\ ~IsReadOnly(c.obj.policy)
    THEN Update([c EXCEPT !.obj.finalizers = AddFinalizer(@, finalizerName)],
                "Update.AddFinalizer", f.site = "FinalizerUpdate")
    ELSE c

\* add the finalizer unless the policy is read-only
EnsureFinalizer(c, f) ==
    IF c.done THEN c
    ELSE IF ~ContainsFinalizer(c.obj.finalizers, finalizerName)
            /\ ~IsReadOnly(c.obj.policy)
    THEN LET c1 == Update([c EXCEPT !.obj.finalizers =
                                AddFinalizer(@, finalizerName)],
                          "Update.AddFinalizer", f.site = "FinalizerUpdate")
         IN IF c1.werr THEN Return(c1, TRUE) ELSE c1
    ELSE c

\* mutant: a CIDR that differs is never pushed
needsCidrUpdateNever(spec, network) == FALSE
\* mutant: the CIDR is pushed on every pass
needsCidrUpdateAlways(spec, network) == TRUE
\* mutant: labels are pushed whenever the spec has any, drift or not
needsLabelsUpdateWheneverSet(spec, network) == ~spec.labels.nil

\* the differ of the found branch
needsCidrUpdate(spec, network) == spec.ipRange # IPNetString(network.ipRange)
needsLabelsUpdate(spec, network) ==
    ~spec.labels.nil /\ ~SemanticDeepEqual(spec.labels, network.labels)

\* mutant: the labels are mirrored into the status as soon as their update
\* went through, before the CIDR update is tried
ApplyUpdatesMirrorsEarly(c, f) ==
    LET found == c.network
        c1 == IF needsLabelsUpdate(c.obj.spec, found)
              THEN LET u == UpdateNetworkLabels(c, found, c.obj.spec.labels,
                                                f.site = "UpdateNetworkLabels")
                   IN IF u.perr THEN FailWith(u, f, "Failed", "update failed")
                      ELSE [u EXCEPT !.obj.status.labels = u.network.labels]
              ELSE c
    IN IF c1.done THEN c1
       ELSE IF needsCidrUpdate(c.obj.spec, found)
       THEN LET u == UpdateNetworkCidr(c1, c1.network, c.obj.spec.ipRange, f)
            IN IF u.perr THEN FailWith(u, f, "Failed", "update failed") ELSE u
       ELSE c1

\* mutant: the CIDR is updated first, then the labels
ApplyUpdatesCidrFirst(c, f) ==
    LET found == c.network
        c1 == IF needsCidrUpdate(c.obj.spec, found)
              THEN LET u == UpdateNetworkCidr(c, found, c.obj.spec.ipRange, f)
                   IN IF u.perr THEN FailWith(u, f, "Failed", "update failed")
                      ELSE u
              ELSE c
    IN IF c1.done THEN c1
       ELSE IF needsLabelsUpdate(c.obj.spec, found)
       THEN LET u == UpdateNetworkLabels(c1, c1.network, c.obj.spec.labels,
                                         f.site = "UpdateNetworkLabels")
            IN IF u.perr THEN FailWith(u, f, "Failed", "update failed") ELSE u
       ELSE c1

\* found and not read-only: labels first, then the CIDR
ApplyUpdates(c, f) ==
    LET found == c.network
        c1 == IF needsLabelsUpdate(c.obj.spec, found)
              THEN LET u == UpdateNetworkLabels(c, found, c.obj.spec.labels,
                                                f.site = "UpdateNetworkLabels")
                   IN IF u.perr THEN FailWith(u, f, "Failed", "update failed")
                      ELSE u
              ELSE c
    IN IF c1.done THEN c1
       ELSE IF needsCidrUpdate(c.obj.spec, found)
       THEN LET u == UpdateNetworkCidr(c1, c1.network, c.obj.spec.ipRange, f)
            IN IF u.perr THEN FailWith(u, f, "Failed", "update failed") ELSE u
       ELSE c1

\* mutant: the generation the pass applied is not recorded
MirrorAndMarkReadyKeepsGeneration(c, f, text) ==
    LET n == c.network
        c1 == [c EXCEPT !.obj.status.externalId = n.id,
                        !.obj.status.ipRange = IPNetString(n.ipRange),
                        !.obj.status.labels = n.labels]
        c2 == SetAvailable(c1, "True", "Ready", text, n.id)
        c4 == StatusUpdate(c2, f.site = "StatusFinal")
    IN Return(c4, c4.werr)

\* mutant: the status mirrors the spec instead of the network
MirrorAndMarkReadyFromSpec(c, f, text) ==
    LET n == c.network
        c1 == [c EXCEPT !.obj.status.externalId = n.id,
                        !.obj.status.ipRange = c.obj.spec.ipRange,
                        !.obj.status.labels = c.obj.spec.labels]
        c2 == SetAvailable(c1, "True", "Ready", text, n.id)
        c3 == [c2 EXCEPT !.obj.status.observedGeneration = c.obj.generation]
        c4 == StatusUpdate(c3, f.site = "StatusFinal")
    IN Return(c4, c4.werr)

\* mutant: a failure of the final status write is only logged
MirrorAndMarkReadySwallowsWriteError(c, f, text) ==
    LET n == c.network
        c1 == [c EXCEPT !.obj.status.externalId = n.id,
                        !.obj.status.ipRange = IPNetString(n.ipRange),
                        !.obj.status.labels = n.labels]
        c2 == SetAvailable(c1, "True", "Ready", text, n.id)
        c3 == [c2 EXCEPT !.obj.status.observedGeneration = c.obj.generation]
        c4 == StatusUpdate(c3, f.site = "StatusFinal")
    IN Return(c4, FALSE)

\* mirror the network into the status, mark Ready, persist
MirrorAndMarkReady(c, f, text) ==
    LET n == c.network
        c1 == [c EXCEPT !.obj.status.externalId = n.id,
                        !.obj.status.ipRange = IPNetString(n.ipRange),
                        !.obj.status.labels = n.labels]
        c2 == SetAvailable(c1, "True", "Ready", text, n.id)
        c3 == [c2 EXCEPT !.obj.status.observedGeneration = c.obj.generation]
        c4 == StatusUpdate(c3, f.site = "StatusFinal")
    IN Return(c4, c4.werr)

\* adopt, update, create or report, after the lookup by name
AdoptOrCreate(c, f) ==
    IF c.done THEN c
    ELSE LET c1 == GetNetworkByName(c, c.obj.spec.name,
                                    f.site = "GetNetworkByName")
         IN IF c1.perr THEN FailWith(c1, f, "Failed", "get by name failed")
            ELSE IF c1.network.exists
            THEN LET c2 == IF ~IsReadOnly(c1.obj.policy)
                           THEN ApplyUpdates(c1, f) ELSE c1
                 IN IF c2.done THEN c2
                    ELSE MirrorAndMarkReady(c2, f, "reconciled")
            ELSE IF ~IsReadOnly(c1.obj.policy)
            THEN LET c2 == CreateNetwork(c1, c1.obj.spec.name,
                                         c1.obj.spec.ipRange,
                                         c1.obj.spec.labels,
                                         f.site = "CreateNetwork")
                 IN IF c2.perr THEN FailWith(c2, f, "Failed", "create failed")
                    ELSE MirrorAndMarkReady(c2, f, "created")
            ELSE LET c2 == SetAvailable(c1, "False", "Failed",
                                        "not found and read-only", 0)
                     c3 == StatusUpdate(c2, f.site = "StatusFinal")
                 IN Return(c3, c3.werr)

\* HcloudNetworkReconciler.Reconcile from the context c0 of a fresh pass
HcloudNetworkReconcile(c0, f) ==
    AdoptOrCreate(EnsureFinalizer(DefaultSyncPolicy(HandleDeletion(
        LoadAndMarkProgressing(c0, f), f), f), f), f)

\* HcloudDnsZoneReconciler.Reconcile: the same pass up to the finalizer, after
\* which it returns success without a lookup, a creation or a status write
HcloudDnsZoneReconcile(c0, f) ==
    LET c == EnsureFinalizer(DefaultSyncPolicy(HandleDeletion(
                LoadAndMarkProgressing(c0, f), f), f), f)
    IN IF c.done THEN c ELSE Return(c, FALSE)

\* the reconciler registered for the record's type runs on the stored record
\* st, the provider state ex and the injected failure f
Reconcile(st, ex, nid, f) ==
    LET c0 == [st |-> st, obj |-> AbsentRecord, ext |-> ex, nextId |-> nid,
               calls |-> <<>>, done |-> FALSE, err |-> FALSE,
               werr |-> FALSE, perr |-> FALSE, network |-> NoNetwork,
               kind |-> "none", result |-> EmptyResult]
    IN IF st.crd = "HcloudDnsZone"
       THEN HcloudDnsZoneReconcile(c0, f)
       ELSE HcloudNetworkReconcile(c0, f)

(* ------------------------- inputs of the model ----------------------- *)
\* what a user writes into the spec, as <<ipRange, labels>>: a canonical
\* network with nil, empty and non-empty labels, the same network written
\* with host bits set, and a string that passes the CRD's pattern but does
\* not parse
SpecChoices ==
    {<<Cidr(0, 1), NilLabels>>, <<Cidr(0, 1), Labels({})>>,
     <<Cidr(0, 1), Labels({<<"a", "1">>})>>,
     <<Cidr(1, 1), Labels({<<"a", "1">>})>>,
     <<BadCidr, NilLabels>>}
\* what a network made by hand at the provider carries, as <<IPNet, labels>>:
\* the spec's, an extra key, another value, another network
ExtChoices ==
    {<<[a |-> 0, l |-> 1], Labels({<<"a", "1">>})>>,
     <<[a |-> 0, l |-> 1], Labels({<<"a", "1">>, <<"b", "2">>})>>,
     <<[a |-> 0, l |-> 1], Labels({<<"a", "2">>})>>,
     <<[a |-> 2, l |-> 1], Labels({<<"a", "1">>})>>}
\* a zone record and a zone at the provider: the zone reconciler reads
\* neither the mode, the ttl nor the labels of either
ZoneSpecChoice == <<EmptyStr, NilLabels>>
ZoneExtChoice == <<[a |-> 0, l |-> 0], NilLabels>>
PolicyChoices == {NoPolicy, "manage", "read-only", "orphan", "bogus"}
\* the injected failures of a pass on record r: one failing call site among
\* those its path can reach, and for a failing provider call whether the
\* status write of its error branch fails too
DeletionSites ==
    {"StatusProgressing", "StatusDeleting", "GetNetworkById", "DeleteNetwork",
     "RemoveFinalizerUpdate"}
ZoneDeletionSites ==
    {"StatusProgressing", "StatusDeleting", "GetZoneById", "DeleteZone",
     "DeleteZoneWaitFor", "RemoveFinalizerUpdate"}
ZoneLiveSites == {"StatusProgressing", "AnnotationUpdate", "FinalizerUpdate"}
LiveSites ==
    {"StatusProgressing", "AnnotationUpdate", "FinalizerUpdate",
     "GetNetworkByName", "UpdateNetworkLabels", "ChangeIPRange", "WaitFor",
     "GetByIDAfterChange", "CreateNetwork", "StatusFinal"}
ProviderSites ==
    {"GetNetworkById", "DeleteNetwork", "GetNetworkByName",
     "UpdateNetworkLabels", "ChangeIPRange", "WaitFor", "GetByIDAfterChange",
     "CreateNetwork", "GetZoneById", "DeleteZone", "DeleteZoneWaitFor"}
Faults(r) ==
    LET sites == {"none", "Get"} \cup
                 (IF ~r.exists THEN {}
                  ELSE IF r.crd = "HcloudDnsZone"
                  THEN (IF r.deletionTimestamp
                        THEN ZoneDeletionSites ELSE ZoneLiveSites)
                  ELSE IF r.deletionTimestamp THEN DeletionSites ELSE LiveSites)
    IN [site : sites, errStatus : {FALSE}]
        \cup [site : sites \cap ProviderSites, errStatus : {TRUE}]

(* ------------------------------- Init -------------------------------- *)
\* a record a user has just submitted; another controller may hold a
\* finalizer on it; nothing exists at the provider yet
Init ==
    /\ \E crd \in {"HcloudNetwork", "HcloudDnsZone"},
          sp \in SpecChoices \cup {ZoneSpecChoice},
          p \in PolicyChoices, other \in BOOLEAN :
         /\ (crd = "HcloudDnsZone") <=> (sp = ZoneSpecChoice)
         /\ rec = [crd |-> crd, exists |-> TRUE, generation |-> 1,
                spec |-> [name |-> specName, ipRange |-> sp[1], labels |-> sp[2]],
                policy |-> p,
                finalizers |-> IF other THEN <<otherFinalizer>> ELSE <<>>,
                deletionTimestamp |-> FALSE,
                status |-> ZeroStatus]
    /\ ext = NoNetwork
    /\ nextId = 1
    /\ pass = NoPass

(* ------------------------------ actions ------------------------------ *)
\* one invocation of Reconcile for the record's key
ReconcilePass ==
    \E f \in Faults(rec) :
        \E r \in {Reconcile(rec, ext, nextId, f)} :
        /\ r.nextId <= MaxId + 1
        /\ rec' = r.st
        /\ ext' = r.ext
        /\ nextId' = r.nextId
        /\ pass' = [kind |-> r.kind, pre |-> rec, preExt |-> ext,
                    obj |-> r.obj, calls |-> r.calls, err |-> r.err,
                    result |-> r.result]

\* the store erases a record under deletion once no finalizer is left
Settle(r) ==
    IF r.deletionTimestamp /\ r.finalizers = <<>>
    THEN [AbsentRecord EXCEPT !.crd = r.crd] ELSE r

\* a user deletes the record: the store stamps it (and bumps the generation)
\* or, with no finalizer on it, erases it at once
UserDelete ==
    /\ rec.exists /\ ~rec.deletionTimestamp /\ rec.generation < MaxGen
    /\ rec' = Settle([rec EXCEPT !.deletionTimestamp = TRUE,
                                 !.generation = @ + 1])
    /\ pass' = NoPass
    /\ UNCHANGED <<ext, nextId>>

\* the other controller releases its finalizer
OtherFinalizerRemoved ==
    /\ rec.exists /\ ContainsFinalizer(rec.finalizers, otherFinalizer)
    /\ rec' = Settle([rec EXCEPT !.finalizers =
                                    RemoveFinalizer(@, otherFinalizer)])
    /\ pass' = NoPass
    /\ UNCHANGED <<ext, nextId>>

\* somebody creates a network or zone of that name at the provider by hand
ExtCreate ==
    /\ ~ext.exists /\ nextId <= MaxId
    /\ \E x \in (IF rec.crd = "HcloudDnsZone"
                 THEN {ZoneExtChoice} ELSE ExtChoices) :
         ext' = [exists |-> TRUE, id |-> nextId, name |-> specName,
                 ipRange |-> x[1], labels |-> x[2]]
    /\ nextId' = nextId + 1
    /\ pass' = NoPass
    /\ UNCHANGED rec

\* somebody deletes the network or zone at the provider by hand
ExtDelete ==
    /\ ext.exists
    /\ ext' = NoNetwork
    /\ pass' = NoPass
    /\ UNCHANGED <<rec, nextId>>

\* a client other than the reconciler writes the id of the provider's zone
\* into the status of a zone record: the zone reconciler never writes
\* status.zoneId itself, its deletion path only reads it
StatusZoneIdWritten ==
    /\ rec.exists /\ rec.crd = "HcloudDnsZone"
    /\ rec.status.externalId = 0 /\ ext.exists
    /\ rec' = [rec EXCEPT !.status.externalId = ext.id]
    /\ pass' = NoPass
    /\ UNCHANGED <<ext, nextId>>

Next ==
    \/ ReconcilePass
    \/ StatusZoneIdWritten
    \/ UserDelete
    \/ OtherFinalizerRemoved
    \/ ExtCreate
    \/ ExtDelete

Spec == Init /\ [][Next]_vars

(* --------------- the same system under a fair trigger ----------------- *)
\* no call of the pass fails
NoFault == [site |-> "none", errStatus |-> FALSE]

\* an invocation of Reconcile during which every store and provider call
\* succeeds
ReconcilePassOk ==
    \E r \in {Reconcile(rec, ext, nextId, NoFault)} :
        /\ r.nextId <= MaxId + 1
        /\ rec' = r.st
        /\ ext' = r.ext
        /\ nextId' = r.nextId
        /\ pass' = [kind |-> r.kind, pre |-> rec, preExt |-> ext,
                    obj |-> r.obj, calls |-> r.calls, err |-> r.err,
                    result |-> r.result]

\* network records with the plain spec under the two policies deletion
\* tells apart
InitForDeletion ==
    /\ Init
    /\ rec.crd = "HcloudNetwork"
    /\ rec.policy \in {"manage", "orphan"}
    /\ rec.spec.ipRange = Cidr(0, 1) /\ rec.spec.labels.kv # {}

\* nobody but the controller creates a network of the record's name, so a
\* network at the provider is one the controller created for the record
NextForDeletion ==
    \/ ReconcilePass
    \/ UserDelete
    \/ OtherFinalizerRemoved
    \/ ExtDelete

\* ReconcilePassOk would change the state: ENABLED <<ReconcilePassOk>>_vars,
\* computed from the pass itself
ReconcilePassOkEnabled ==
    \E r \in {Reconcile(rec, ext, nextId, NoFault)} :
        /\ r.nextId <= MaxId + 1
        /\ <<r.st, r.ext, r.nextId,
             [kind |-> r.kind, pre |-> rec, preExt |-> ext,
              obj |-> r.obj, calls |-> r.calls, err |-> r.err,
              result |-> r.result]>> # vars

\* the trigger re-invokes Reconcile until a pass meets no failing call, and
\* the other controller releases its finalizer in the end: weak fairness of
\* ReconcilePassOk, written out as WF_vars is defined, and of
\* OtherFinalizerRemoved
FairSpec ==
    /\ InitForDeletion /\ [][NextForDeletion]_vars
    /\ ([]<>(~ReconcilePassOkEnabled) \/ []<><<ReconcilePassOk>>_vars)
    /\ WF_vars(OtherFinalizerRemoved)

(* ----------------- the same system with annotation edits -------------- *)
\* a user rewrites the sync-policy annotation of a record; an annotation is
\* metadata, so the generation stays
UserSetPolicy ==
    /\ rec.exists
    /\ \E p \in PolicyChoices \ {rec.policy} :
         rec' = [rec EXCEPT !.policy = p]
    /\ pass' = NoPass
    /\ UNCHANGED <<ext, nextId>>

\* records whose spec is the plain one, so that the edits are what varies
InitWithEdits ==
    /\ Init
    /\ rec.spec.labels.kv # {} \/ rec.crd = "HcloudDnsZone"
    /\ rec.spec.ipRange \in {Cidr(0, 1), EmptyStr}
    /\ rec.finalizers = <<>>

NextWithEdits ==
    \/ ReconcilePass
    \/ StatusZoneIdWritten
    \/ UserDelete
    \/ UserSetPolicy
    \/ ExtCreate
    \/ ExtDelete

SpecWithEdits == InitWithEdits /\ [][NextWithEdits]_vars

(* -------------------- the same system with spec edits ----------------- *)
\* a user edits the spec of a network record: the store bumps the generation
UserEditSpec ==
    /\ rec.exists /\ rec.crd = "HcloudNetwork"
    /\ ~rec.deletionTimestamp /\ rec.generation < MaxGen
    /\ \E sp \in SpecChoices :
         /\ <<rec.spec.ipRange, rec.spec.labels>> # sp
         /\ rec' = [rec EXCEPT !.spec.ipRange = sp[1], !.spec.labels = sp[2],
                                !.generation = @ + 1]
    /\ pass' = NoPass
    /\ UNCHANGED <<ext, nextId>>

\* network records under the two policies the live path tells apart, whose
\* spec starts as the plain one, so that the edits are what varies
InitWithSpecEdits ==
    /\ Init
    /\ rec.crd = "HcloudNetwork"
    /\ rec.policy \in {"manage", "read-only"}
    /\ rec.finalizers = <<>>
    /\ rec.spec.ipRange = Cidr(0, 1) /\ rec.spec.labels.kv # {}

NextWithSpecEdits ==
    \/ ReconcilePass
    \/ UserEditSpec
    \/ UserDelete
    \/ ExtCreate
    \/ ExtDelete

SpecWithSpecEdits == InitWithSpecEdits /\ [][NextWithSpecEdits]_vars

(* ------------- the same system with edits at the provider ------------ *)
\* what a network edited by hand at the provider may carry: the choices of
\* a network made by hand, no labels at all, and another network with
\* another label value
ExtEditChoices ==
    ExtChoices \cup
    {<<[a |-> 0, l |-> 1], Labels({})>>,
     <<[a |-> 2, l |-> 1], Labels({<<"a", "2">>})>>}

\* somebody changes the range or the labels of the network at the provider
ExtEdit ==
    /\ ext.exists
    /\ \E x \in ExtEditChoices :
         /\ <<ext.ipRange, ext.labels>> # x
         /\ ext' = [ext EXCEPT !.ipRange = x[1], !.labels = x[2]]
    /\ pass' = NoPass
    /\ UNCHANGED <<rec, nextId>>

\* live network records under the two policies the live path tells apart
InitWithDrift ==
    /\ Init
    /\ rec.crd = "HcloudNetwork"
    /\ rec.policy \in {"manage", "read-only"}
    /\ rec.finalizers = <<>>

NextWithDrift ==
    \/ ReconcilePass
    \/ ExtCreate
    \/ ExtEdit
    \/ ExtDelete

SpecWithDrift == InitWithDrift /\ [][NextWithDrift]_vars

(* ------- the same system with conditions written by other clients ----- *)
\* a condition of another type, as another client of the store writes it
otherCondition ==
    [Condition("True", "Synced", "synced", 0, 0) EXCEPT !.type = "Synced"]

\* another client sets its own condition on the record's status
OtherConditionWritten ==
    /\ rec.exists
    /\ FindStatusCondition(rec.status.conditions, otherCondition.type) = 0
    /\ rec' = [rec EXCEPT !.status.conditions =
                            SetStatusCondition(@, otherCondition)]
    /\ pass' = NoPass
    /\ UNCHANGED <<ext, nextId>>

\* network records with the plain spec under every policy
InitWithConditions ==
    /\ Init
    /\ rec.crd = "HcloudNetwork"
    /\ rec.finalizers = <<>>
    /\ rec.spec.ipRange = Cidr(0, 1) /\ rec.spec.labels.kv # {}

NextWithConditions ==
    \/ ReconcilePass
    \/ OtherConditionWritten
    \/ UserDelete
    \/ ExtCreate
    \/ ExtDelete

SpecWithConditions == InitWithConditions /\ [][NextWithConditions]_vars

(* ------------- two record keys, interleaved call by call ------------- *)
\* In this specification rec and ext hold one value per key or name, nextId
\* is the provider's one counter, and pass holds one running invocation of
\* Reconcile per key, which advances by one store or provider call a step.
Keys == {"a", "b"}
\* spec.name of the record of key k: the two records name different networks
NameOf(k) == IF k = "a" THEN specName ELSE "net-b"
Names == {NameOf(k) : k \in Keys}

\* mutant: every name resolves to the one entry
SlotByNameShared(name, own) == specName

\* the provider's entry a lookup by name addresses
SlotByName(name, own) == IF name \in Names THEN name ELSE own
\* the provider's entry a request by id addresses: ids are unique over all
\* networks of the project
SlotById(id, own) ==
    IF \E n \in Names : ext[n].exists /\ ext[n].id = id
    THEN CHOOSE n \in Names : ext[n].exists /\ ext[n].id = id
    ELSE own

\* the invocation for key k about to make a call that addresses the
\* provider's entry s: the store and the provider are read when the call is
\* made
Ctx(k, s) ==
    [pass.proc[k] EXCEPT !.st = rec[k], !.ext = ext[s], !.nextId = nextId]
\* the call of key k is made while another key's invocation is under way
Overlaps(k) ==
    \E j \in Keys \ {k} : pass.proc[j].pc \notin {"Get", "done"}
\* what the call left behind, and where the invocation goes next
Land(k, s, c, pc) ==
    /\ rec' = [rec EXCEPT ![k] = c.st]
    /\ ext' = [ext EXCEPT ![s] = c.ext]
    /\ nextId' = c.nextId
    /\ pass' = [pass EXCEPT !.proc[k] =
                    [c EXCEPT !.pc = IF c.done THEN "done" ELSE pc],
                             !.overlapped = @ \/ Overlaps(k)]
\* an error branch was entered: its status write is the next call
Failing(c, reason, text) == [c EXCEPT !.fail = <<reason, text>>]

\* line 187: the finalizer is added unless it is there or the policy is
\* read-only; then comes the lookup by name
AfterAnnotation(c) ==
    IF ~ContainsFinalizer(c.obj.finalizers, finalizerName)
       /\ ~IsReadOnly(c.obj.policy)
    THEN "Finalizer" ELSE "GetNetworkByName"
\* line 172: the annotation is defaulted when it is absent
AfterDeletionBlock(c) ==
    IF c.obj.policy = NoPolicy THEN "Annotation" ELSE AfterAnnotation(c)
\* line 90: a record under deletion takes the deletion block
AfterProgressing(c) ==
    IF c.obj.deletionTimestamp THEN "StatusDeleting" ELSE AfterDeletionBlock(c)

\* lines 62-65
StepGet(k) ==
    /\ pass.proc[k].pc = "Get"
    /\ LET c == Ctx(k, NameOf(k)) IN
       IF c.f.site = "Get"
       THEN Land(k, NameOf(k),
                 Return([c EXCEPT !.calls = Append(@, Ev("Get", FALSE)),
                                  !.kind = "loadfail"], TRUE), "done")
       ELSE IF ~c.st.exists
       THEN Land(k, NameOf(k),
                 Return([c EXCEPT !.calls = Append(@, Ev("Get", TRUE)),
                                  !.kind = "absent"], FALSE), "done")
       ELSE Land(k, NameOf(k),
                 [c EXCEPT !.calls = Append(@, Ev("Get", TRUE)),
                           !.obj = c.st,
                           !.kind = IF c.st.deletionTimestamp
                                    THEN "deletion" ELSE "live"],
                 "StatusProgressing")

\* lines 78-88
StepStatusProgressing(k) ==
    /\ pass.proc[k].pc = "StatusProgressing"
    /\ LET c == Ctx(k, NameOf(k))
           c2 == SetAvailable(c, "False", "Progressing", "in progress", 0)
           c3 == StatusUpdate(c2, c.f.site = "StatusProgressing")
       IN Land(k, NameOf(k), IF c3.werr THEN Return(c3, TRUE) ELSE c3,
               AfterProgressing(c3))

\* lines 92-108
StepStatusDeleting(k) ==
    /\ pass.proc[k].pc = "StatusDeleting"
    /\ LET c == Ctx(k, NameOf(k))
           c1 == SetAvailable(c, "False", "Deleting", "being deleted", 0)
           c2 == StatusUpdate(c1, c.f.site = "StatusDeleting")
       IN Land(k, NameOf(k),
               IF c2.werr THEN Return(c2, TRUE)
               ELSE IF ~ContainsFinalizer(c2.obj.finalizers, finalizerName)
               THEN Return(c2, FALSE)
               ELSE c2,
               IF c2.obj.status.externalId # 0
                  /\ MayDeleteExternal(c2.obj.policy)
               THEN "GetNetworkById" ELSE "RemoveFinalizer")

\* lines 110-130
StepGetNetworkById(k) ==
    /\ pass.proc[k].pc = "GetNetworkById"
    /\ LET id == pass.proc[k].obj.status.externalId
           s == SlotById(id, NameOf(k))
           c == Ctx(k, s)
           c1 == GetNetworkById(c, id, c.f.site = "GetNetworkById")
       IN IF c1.perr
          THEN Land(k, s, Failing(c1, "DeletionFailed",
                                  "get for deletion failed"), "StatusFailed")
          ELSE Land(k, s, c1, IF c1.network.exists
                              THEN "DeleteNetwork" ELSE "RemoveFinalizer")

\* lines 132-150
StepDeleteNetwork(k) ==
    /\ pass.proc[k].pc = "DeleteNetwork"
    /\ LET s == SlotById(pass.proc[k].network.id, NameOf(k))
           c == Ctx(k, s)
           c2 == DeleteNetwork(c, c.network, c.f.site = "DeleteNetwork")
       IN IF c2.perr
          THEN Land(k, s, Failing(c2, "DeletionFailed", "delete failed"),
                    "StatusFailed")
          ELSE Land(k, s, c2, "RemoveFinalizer")

\* lines 161-168
StepRemoveFinalizer(k) ==
    /\ pass.proc[k].pc = "RemoveFinalizer"
    /\ LET c == Ctx(k, NameOf(k))
           c4 == Update([c EXCEPT !.obj.finalizers =
                            RemoveFinalizer(@, finalizerName)],
                        "Update.RemoveFinalizer",
                        c.f.site = "RemoveFinalizerUpdate")
       IN Land(k, NameOf(k), Return(c4, c4.werr), "done")

\* the status write and the return of an error branch
StepStatusFailed(k) ==
    /\ pass.proc[k].pc = "StatusFailed"
    /\ LET c == Ctx(k, NameOf(k))
       IN Land(k, NameOf(k), FailWith(c, c.f, c.fail[1], c.fail[2]), "done")

\* lines 171-184
StepAnnotation(k) ==
    /\ pass.proc[k].pc = "Annotation"
    /\ LET c == Ctx(k, NameOf(k))
           c1 == Update([c EXCEPT !.obj.policy = "manage"],
                        "Update.Annotation", c.f.site = "AnnotationUpdate")
       IN Land(k, NameOf(k), IF c1.werr THEN Return(c1, TRUE) ELSE c1,
               AfterAnnotation(c1))

\* lines 186-194
StepFinalizer(k) ==
    /\ pass.proc[k].pc = "Finalizer"
    /\ LET c == Ctx(k, NameOf(k))
           c1 == Update([c EXCEPT !.obj.finalizers =
                            AddFinalizer(@, finalizerName)],
                        "Update.AddFinalizer", c.f.site = "FinalizerUpdate")
       IN Land(k, NameOf(k), IF c1.werr THEN Return(c1, TRUE) ELSE c1,
               "GetNetworkByName")

\* lines 198-232 and 302: the lookup by name and the choice of what follows
StepGetNetworkByName(k) ==
    /\ pass.proc[k].pc = "GetNetworkByName"
    /\ LET name == pass.proc[k].obj.spec.name
           s == SlotByName(name, NameOf(k))
           c == Ctx(k, s)
           c1 == GetNetworkByName(c, name, c.f.site = "GetNetworkByName")
           c2 == [c1 EXCEPT !.needsCidr =
                    needsCidrUpdate(c1.obj.spec, c1.network)]
       IN IF c1.perr
          THEN Land(k, s, Failing(c1, "Failed", "get by name failed"),
                    "StatusFailed")
          ELSE IF c1.network.exists
          THEN Land(k, s, [c2 EXCEPT !.text = "reconciled"],
                    IF IsReadOnly(c1.obj.policy) THEN "StatusFinal"
                    ELSE IF needsLabelsUpdate(c1.obj.spec, c1.network)
                    THEN "UpdateNetworkLabels"
                    ELSE IF c2.needsCidr THEN "UpdateNetworkCidr"
                    ELSE "StatusFinal")
          ELSE Land(k, s, c1, IF IsReadOnly(c1.obj.policy)
                              THEN "StatusNotFound" ELSE "CreateNetwork")

\* lines 233-251
StepUpdateNetworkLabels(k) ==
    /\ pass.proc[k].pc = "UpdateNetworkLabels"
    /\ LET s == SlotById(pass.proc[k].network.id, NameOf(k))
           c == Ctx(k, s)
           u == UpdateNetworkLabels(c, c.network, c.obj.spec.labels,
                                    c.f.site = "UpdateNetworkLabels")
       IN IF u.perr
          THEN Land(k, s, Failing(u, "Failed", "update failed"), "StatusFailed")
          ELSE Land(k, s, u, IF u.needsCidr
                             THEN "UpdateNetworkCidr" ELSE "StatusFinal")

\* lines 253-273
StepUpdateNetworkCidr(k) ==
    /\ pass.proc[k].pc = "UpdateNetworkCidr"
    /\ LET s == SlotById(pass.proc[k].network.id, NameOf(k))
           c == Ctx(k, s)
           u == UpdateNetworkCidr(c, c.network, c.obj.spec.ipRange, c.f)
       IN IF u.perr
          THEN Land(k, s, Failing(u, "Failed", "update failed"), "StatusFailed")
          ELSE Land(k, s, u, "StatusFinal")

\* lines 302-321
StepCreateNetwork(k) ==
    /\ pass.proc[k].pc = "CreateNetwork"
    /\ LET name == pass.proc[k].obj.spec.name
           s == SlotByName(name, NameOf(k))
           c == Ctx(k, s)
           c2 == CreateNetwork(c, name, c.obj.spec.ipRange, c.obj.spec.labels,
                               c.f.site = "CreateNetwork")
       IN IF c2.perr
          THEN Land(k, s, Failing(c2, "Failed", "create failed"), "StatusFailed")
          ELSE Land(k, s, [c2 EXCEPT !.text = "created"], "StatusFinal")

\* lines 283-300 and 323-342
StepStatusFinal(k) ==
    /\ pass.proc[k].pc = "StatusFinal"
    /\ LET c == Ctx(k, NameOf(k))
       IN Land(k, NameOf(k), MirrorAndMarkReady(c, c.f, c.text), "done")

\* lines 343-358: not found under read-only
StepStatusNotFound(k) ==
    /\ pass.proc[k].pc = "StatusNotFound"
    /\ LET c == Ctx(k, NameOf(k))
           c2 == SetAvailable(c, "False", "Failed",
                              "not found and read-only", 0)
           c3 == StatusUpdate(c2, c.f.site = "StatusFinal")
       IN Land(k, NameOf(k), Return(c3, c3.werr), "done")

\* a record a user has just submitted under policy p, naming network name
FreshRecord(name, p) ==
    [crd |-> "HcloudNetwork", exists |-> TRUE, generation |-> 1,
     spec |-> [name |-> name, ipRange |-> Cidr(0, 1),
               labels |-> Labels({<<"a", "1">>})],
     policy |-> p, finalizers |-> <<>>, deletionTimestamp |-> FALSE,
     status |-> ZeroStatus]
\* where a key stands when its pass starts, as <<record, network>>: a new
\* record; a new record whose network somebody made by hand with other
\* labels and another range; a record reconciled once and then deleted
Scenarios == {"fresh", "adopt", "delete"}
Start(name, sc, p, id) ==
    IF sc = "fresh" THEN <<FreshRecord(name, p), NoNetwork>>
    ELSE IF sc = "adopt"
    THEN <<FreshRecord(name, p),
           [exists |-> TRUE, id |-> id, name |-> name,
            ipRange |-> [a |-> 2, l |-> 1],
            labels |-> Labels({<<"a", "2">>})]>>
    ELSE LET r == Reconcile(FreshRecord(name, p), NoNetwork, id, NoFault)
         IN <<[r.st EXCEPT !.deletionTimestamp = TRUE, !.generation = 2],
              r.ext>>
\* the ids the provider has handed out before the passes start
UsedIds(sc) == IF sc = "fresh" THEN 0 ELSE 1
\* an invocation of Reconcile that has made no call yet
FreshProc(f) ==
    [st |-> AbsentRecord, obj |-> AbsentRecord, ext |-> NoNetwork,
     nextId |-> 0, calls |-> <<>>, done |-> FALSE, err |-> FALSE,
     werr |-> FALSE, perr |-> FALSE, network |-> NoNetwork,
     kind |-> "none", result |-> EmptyResult,
     pc |-> "Get", f |-> f, needsCidr |-> FALSE, text |-> "",
     fail |-> <<"", "">>]
\* the policies and the failing call sites tried with each scenario
StartPolicies(sc) ==
    IF sc = "fresh" THEN {NoPolicy, "read-only"}
    ELSE IF sc = "adopt" THEN {"manage", "read-only"}
    ELSE {"manage", "orphan"}
StartSites(sc) ==
    {"none"} \cup
    (IF sc = "fresh" THEN {"FinalizerUpdate", "CreateNetwork", "StatusFinal"}
     ELSE IF sc = "adopt"
     THEN {"GetNetworkByName", "UpdateNetworkLabels", "WaitFor"}
     ELSE {"GetNetworkById", "DeleteNetwork", "RemoveFinalizerUpdate"})

InitTwoKeys ==
    \E sa \in Scenarios, sb \in Scenarios :
      \E pa \in StartPolicies(sa), pb \in StartPolicies(sb),
         fa \in StartSites(sa), fb \in StartSites(sb) :
        \E xa \in {Start(NameOf("a"), sa, pa, 1)},
           xb \in {Start(NameOf("b"), sb, pb, 1 + UsedIds(sa))} :
          /\ rec = [k \in Keys |-> IF k = "a" THEN xa[1] ELSE xb[1]]
          /\ ext = [n \in Names |-> IF n = NameOf("a") THEN xa[2] ELSE xb[2]]
          /\ nextId = 1 + UsedIds(sa) + UsedIds(sb)
          /\ pass = [proc |-> [k \in Keys |->
                        FreshProc([site |-> IF k = "a" THEN fa ELSE fb,
                                   errStatus |-> FALSE])],
                     pre |-> rec, preExt |-> ext, preNextId |-> nextId,
                     overlapped |-> FALSE]

NextTwoKeys ==
    \E k \in Keys :
        \/ StepGet(k)
        \/ StepStatusProgressing(k)
        \/ StepStatusDeleting(k)
        \/ StepGetNetworkById(k)
        \/ StepDeleteNetwork(k)
        \/ StepRemoveFinalizer(k)
        \/ StepStatusFailed(k)
        \/ StepAnnotation(k)
        \/ StepFinalizer(k)
        \/ StepGetNetworkByName(k)
        \/ StepUpdateNetworkLabels(k)
        \/ StepUpdateNetworkCidr(k)
        \/ StepCreateNetwork(k)
        \/ StepStatusFinal(k)
        \/ StepStatusNotFound(k)

SpecTwoKeys == InitTwoKeys /\ [][NextTwoKeys]_vars

(* -------- the client library called directly, without a record ------- *)
\* In this specification there is no record: ext is the zone at the
\* provider, and pass is the last call of a NetworkManager method or of
\* hcloudDnsZoneAdapter.CreateZone: its arguments, the requests it passed on
\* and what it returned.
\* a Go error, by what tells one from another; NoError is nil
NoError == ""
InvalidNetworkID == "invalid network ID"
NameRequired == "network name is required"
ClientError == "client error"

\* what the client under a NetworkManager answers when it is called: a
\* network or nil, and an error or nil
ClientAnswers ==
    {[network |-> n, err |-> e] :
        n \in {NoNetwork,
               [exists |-> TRUE, id |-> 1, name |-> specName,
                ipRange |-> [a |-> 0, l |-> 1], labels |-> NilLabels]},
        e \in {NoError, ClientError}}
\* a call a NetworkManager method passed on to its client
Delegated(op, id, name) == [op |-> op, id |-> id, name |-> name]
\* what a method returned, and the calls it made on its client
Returned(network, err, delegated) ==
    [network |-> network, err |-> err, delegated |-> delegated]

\* mutant: only a negative id is refused
ManagerGetNetworkByIdAcceptsZero(answer, id) ==
    IF id < 0 THEN Returned(NoNetwork, InvalidNetworkID, <<>>)
    ELSE Returned(answer.network, answer.err,
                  <<Delegated("GetNetworkById", id, "")>>)

\* NetworkManager.GetNetworkById
ManagerGetNetworkById(answer, id) ==
    IF id <= 0 THEN Returned(NoNetwork, InvalidNetworkID, <<>>)
    ELSE Returned(answer.network, answer.err,
                  <<Delegated("GetNetworkById", id, "")>>)
\* NetworkManager.GetNetworkByName
ManagerGetNetworkByName(answer, name) ==
    IF name = "" THEN Returned(NoNetwork, NameRequired, <<>>)
    ELSE Returned(answer.network, answer.err,
                  <<Delegated("GetNetworkByName", 0, name)>>)
\* NetworkManager.CreateNetwork
ManagerCreateNetwork(answer, name) ==
    IF name = "" THEN Returned(NoNetwork, NameRequired, <<>>)
    ELSE Returned(answer.network, answer.err,
                  <<Delegated("CreateNetwork", 0, name)>>)
\* NetworkManager.UpdateNetwork
ManagerUpdateNetwork(answer, id) ==
    IF id <= 0 THEN Returned(NoNetwork, InvalidNetworkID, <<>>)
    ELSE Returned(answer.network, answer.err,
                  <<Delegated("UpdateNetwork", id, "")>>)
\* NetworkManager.DeleteNetwork: returns an error only
ManagerDeleteNetwork(answer, id) ==
    IF id <= 0 THEN Returned(NoNetwork, InvalidNetworkID, <<>>)
    ELSE Returned(NoNetwork, answer.err,
                  <<Delegated("DeleteNetwork", id, "")>>)

\* hcloudDnsZoneAdapter.CreateZone: Zone.Create, then Action.WaitFor on the
\* action of the result. zone is what Zone.Create returns when it succeeds.
\* After a wait that failed the zone is returned with a nil error; after a
\* wait that succeeded nil is returned with the wait's error, which is nil
CreateZone(zone, createFails, waitFails) ==
    IF createFails
    THEN [zone |-> NoNetwork, err |-> ClientError,
          reqs |-> <<Req("Zone.Create", FALSE)>>]
    ELSE IF waitFails
    THEN [zone |-> zone, err |-> NoError,
          reqs |-> <<Req("Zone.Create", TRUE), Req("WaitFor", FALSE)>>]
    ELSE [zone |-> NoNetwork, err |-> NoError,
          reqs |-> <<Req("Zone.Create", TRUE), Req("WaitFor", TRUE)>>]

\* the ids and names the methods are called with
CallIds == (0 - 1)..MaxId
CallNames == {"", specName}
ZoneModes == {"primary", "secondary"}

\* somebody calls a method of a NetworkManager whose client answers answer
ManagerCall ==
    /\ \E answer \in ClientAnswers :
         \/ \E id \in CallIds :
              \E m \in {<<"GetNetworkById", ManagerGetNetworkById(answer, id)>>,
                        <<"UpdateNetwork", ManagerUpdateNetwork(answer, id)>>,
                        <<"DeleteNetwork", ManagerDeleteNetwork(answer, id)>>} :
                pass' = [kind |-> "manager", op |-> m[1], id |-> id,
                         name |-> "", answer |-> answer, out |-> m[2]]
         \/ \E name \in CallNames :
              \E m \in {<<"GetNetworkByName",
                          ManagerGetNetworkByName(answer, name)>>,
                        <<"CreateNetwork",
                          ManagerCreateNetwork(answer, name)>>} :
                pass' = [kind |-> "manager", op |-> m[1], id |-> 0,
                         name |-> name, answer |-> answer, out |-> m[2]]
    /\ UNCHANGED <<rec, ext, nextId>>

\* somebody calls CreateZone; the provider refuses a second zone of a name,
\* and may refuse the first or fail its action
CreateZoneCall ==
    /\ nextId <= MaxId
    /\ \E mode \in ZoneModes, lb \in {NilLabels, Labels({<<"a", "1">>})},
          createFails \in BOOLEAN, waitFails \in BOOLEAN :
         /\ ext.exists => createFails
         /\ LET zone == [exists |-> TRUE, id |-> nextId, name |-> specName,
                         ipRange |-> ZoneExtChoice[1], labels |-> lb]
            IN /\ pass' = [kind |-> "zone", op |-> "CreateZone", mode |-> mode,
                           labels |-> lb, createFails |-> createFails,
                           waitFails |-> waitFails,
                           out |-> CreateZone(zone, createFails, waitFails)]
               /\ ext' = IF createFails THEN ext ELSE zone
               /\ nextId' = IF createFails THEN nextId ELSE nextId + 1
    /\ UNCHANGED rec

\* somebody deletes the zone at the provider
ZoneDeleted ==
    /\ ext.exists
    /\ ext' = NoNetwork
    /\ pass' = NoPass
    /\ UNCHANGED <<rec, nextId>>

InitWithClients ==
    /\ rec = AbsentRecord
    /\ ext = NoNetwork
    /\ nextId = 1
    /\ pass = NoPass

NextWithClients ==
    \/ ManagerCall
    \/ CreateZoneCall
    \/ ZoneDeleted

SpecWithClients == InitWithClients /\ [][NextWithClients]_vars

(* --------------- the same system behind its event filter ------------- *)
\* mutant: no filter installed, every event passes
EveryChangePredicate(old, new) ==
    old # new

\* predicate.GenerationChangedPredicate{} as SetupWithManager installs it,
\* applied to the event the store sends when the record goes from old to
\* new: the predicate overrides Update only, so a create and a delete event
\* pass, and an update event passes when the generation differs
GenerationChangedPredicate(old, new) ==
    IF ~old.exists THEN new.exists
    ELSE IF ~new.exists THEN TRUE
    ELSE old.generation # new.generation

\* the value of pass while no pass is being looked at, with the work queue
\* of the controller: queued tells whether the record's key is in it
Idle(queued) ==
    [kind |-> "none", pre |-> AbsentRecord, preExt |-> NoNetwork,
     obj |-> AbsentRecord, calls |-> <<>>, err |-> FALSE,
     result |-> EmptyResult, queued |-> queued]

\* the key is in the queue after the record went from old to new
Enqueued(old, new) ==
    pass.queued \/ GenerationChangedPredicate(old, new)

\* the controller takes the key off the queue and invokes Reconcile; the
\* events of the pass's own writes go through the filter, and a returned
\* error puts the key back
QueuedReconcilePass ==
    /\ pass.queued
    /\ \E f \in Faults(rec) :
        \E r \in {Reconcile(rec, ext, nextId, f)} :
        /\ r.nextId <= MaxId + 1
        /\ rec' = r.st
        /\ ext' = r.ext
        /\ nextId' = r.nextId
        /\ pass' = [kind |-> r.kind, pre |-> rec, preExt |-> ext,
                    obj |-> r.obj, calls |-> r.calls, err |-> r.err,
                    result |-> r.result,
                    queued |-> \/ r.err
                               \/ r.result.requeue
                               \/ r.result.requeueAfter > 0
                               \/ GenerationChangedPredicate(rec, r.st)]

\* UserEditSpec, seen by the controller
WatchedUserEditSpec ==
    /\ rec.exists /\ rec.crd = "HcloudNetwork"
    /\ ~rec.deletionTimestamp /\ rec.generation < MaxGen
    /\ \E sp \in SpecChoices :
         /\ <<rec.spec.ipRange, rec.spec.labels>> # sp
         /\ rec' = [rec EXCEPT !.spec.ipRange = sp[1], !.spec.labels = sp[2],
                                !.generation = @ + 1]
    /\ pass' = Idle(Enqueued(rec, rec'))
    /\ UNCHANGED <<ext, nextId>>

\* UserDelete, seen by the controller
WatchedUserDelete ==
    /\ rec.exists /\ ~rec.deletionTimestamp /\ rec.generation < MaxGen
    /\ rec' = Settle([rec EXCEPT !.deletionTimestamp = TRUE,
                                 !.generation = @ + 1])
    /\ pass' = Idle(Enqueued(rec, rec'))
    /\ UNCHANGED <<ext, nextId>>

\* the policies a user sets here: one under which the finalizer is added and
\* the resource managed, and the one under which neither happens
WatchedPolicies == {"manage", "read-only"}

\* UserSetPolicy, seen by the controller
WatchedUserSetPolicy ==
    /\ rec.exists
    /\ \E p \in WatchedPolicies \ {rec.policy} :
         rec' = [rec EXCEPT !.policy = p]
    /\ pass' = Idle(Enqueued(rec, rec'))
    /\ UNCHANGED <<ext, nextId>>

\* OtherFinalizerRemoved, seen by the controller
WatchedOtherFinalizerRemoved ==
    /\ rec.exists /\ ContainsFinalizer(rec.finalizers, otherFinalizer)
    /\ rec' = Settle([rec EXCEPT !.finalizers =
                                    RemoveFinalizer(@, otherFinalizer)])
    /\ pass' = Idle(Enqueued(rec, rec'))
    /\ UNCHANGED <<ext, nextId>>

\* ExtDelete: the controller watches the store only, so nothing tells it
UnwatchedExtDelete ==
    /\ ext.exists
    /\ ext' = NoNetwork
    /\ pass' = Idle(pass.queued)
    /\ UNCHANGED <<rec, nextId>>

\* a record with the plain spec that a user has just submitted: its create
\* event has put the key in the queue
InitWithTrigger ==
    /\ \E crd \in {"HcloudNetwork", "HcloudDnsZone"},
          p \in {NoPolicy} \cup WatchedPolicies, other \in BOOLEAN :
         rec = [crd |-> crd, exists |-> TRUE, generation |-> 1,
                spec |-> [name |-> specName,
                          ipRange |-> IF crd = "HcloudDnsZone"
                                      THEN ZoneSpecChoice[1] ELSE Cidr(0, 1),
                          labels |-> IF crd = "HcloudDnsZone"
                                     THEN ZoneSpecChoice[2]
                                     ELSE Labels({<<"a", "1">>})],
                policy |-> p,
                finalizers |-> IF other THEN <<otherFinalizer>> ELSE <<>>,
                deletionTimestamp |-> FALSE,
                status |-> ZeroStatus]
    /\ ext = NoNetwork
    /\ nextId = 1
    /\ pass = Idle(GenerationChangedPredicate(AbsentRecord, rec))

NextWithTrigger ==
    \/ QueuedReconcilePass
    \/ WatchedUserEditSpec
    \/ WatchedUserDelete
    \/ WatchedUserSetPolicy
    \/ WatchedOtherFinalizerRemoved
    \/ UnwatchedExtDelete

SpecWithTrigger == InitWithTrigger /\ [][NextWithTrigger]_vars

TypeOK ==
    /\ rec.generation \in 0..MaxGen
    /\ nextId \in 1..(MaxId + 1)
    /\ pass.kind \in {"none", "absent", "loadfail", "deletion", "live"}

(* ===================================================================== *)
(*                     observations on the last pass                     *)
(* ===================================================================== *)
\* the controller's finalizer token is among the finalizers fs
HasOwnToken(fs) == \E i \in 1..Len(fs) : fs[i] = finalizerName
\* the calls of the last pass to operation op, in order
CallsTo(op) == SelectSeq(pass.calls, LAMBDA e : e.op = op)
Called(op) == Len(CallsTo(op)) > 0
\* position of the first call to op in the last pass, 0 if none
FirstCall(op) ==
    IF Called(op)
    THEN CHOOSE i \in 1..Len(pass.calls) :
            /\ pass.calls[i].op = op
            /\ \A j \in 1..(i - 1) : pass.calls[j].op # op
    ELSE 0
ProviderCalls == SelectSeq(pass.calls, LAMBDA e : e.op \in ProviderOps)
MutationCalls == SelectSeq(pass.calls, LAMBDA e : e.op \in MutationOps)
\* every call the pass made succeeded
AllCallsOk == \A i \in 1..Len(pass.calls) : pass.calls[i].ok
\* every store read and write the pass made succeeded
StoreCallsOk ==
    \A i \in 1..Len(pass.calls) :
        pass.calls[i].op \notin ProviderOps => pass.calls[i].ok
\* the lookup by name of the last pass returned an existing network
FoundByName ==
    /\ pass.kind = "live"
    /\ Called("GetNetworkByName")
    /\ CallsTo("GetNetworkByName")[1].ok
    /\ pass.preExt.exists /\ pass.preExt.name = pass.pre.spec.name
\* the deletion pass got as far as the finalizer check with the token present
DeletionWithFinalizer ==
    /\ pass.kind = "deletion"
    /\ HasOwnToken(pass.pre.finalizers)

(* ===================================================================== *)
(*                                claims                                 *)
(* ===================================================================== *)

\* C1 (adoption over duplicate creation): in a live pass whose lookup by
\* name returned an existing network, CreateNetwork is not called, whatever
\* status.externalId was before; the pass assigns the found id to
\* status.externalId unless an update call failed first, and when no call of
\* the pass failed the persisted status.externalId is the found id.
C1_AdoptionNoCreate ==
    FoundByName =>
        /\ ~Called("CreateNetwork")
        /\ (\A i \in 1..Len(pass.calls) :
                pass.calls[i].op \in ProviderOps => pass.calls[i].ok)
            => pass.obj.status.externalId = pass.preExt.id
        /\ AllCallsOk =>
            /\ rec.exists
            /\ rec.status.externalId = pass.preExt.id
\* an adoption: the record had no id yet and now carries the found one
C1_Witness ==
    /\ FoundByName /\ AllCallsOk
    /\ pass.pre.status.externalId = 0
    /\ rec.status.externalId = pass.preExt.id
    /\ rec.status.externalId # 0

\* C2 (orphan on delete): a deletion pass of either reconciler on a record
\* with the finalizer token, policy orphan and a non-zero status.externalId
\* makes no provider call at all (no DeleteNetwork or DeleteZone for any id)
\* and leaves the external resource as it was; when its store writes succeed
\* it removes the finalizer token and returns success.
C2_OrphanOnDelete ==
    (/\ DeletionWithFinalizer
     /\ pass.pre.policy = "orphan"
     /\ pass.pre.status.externalId # 0)
    => /\ ~Called("DeleteNetwork") /\ ~Called("DeleteZone")
       /\ ProviderCalls = <<>>
       /\ ext = pass.preExt
       /\ StoreCallsOk =>
            /\ ~pass.err
            /\ ~HasOwnToken(rec.finalizers)
\* the record is gone from the store and the network is still there
C2_Witness ==
    /\ DeletionWithFinalizer
    /\ pass.pre.policy = "orphan"
    /\ pass.pre.status.externalId # 0
    /\ ~pass.err
    /\ ~rec.exists
    /\ ext.exists /\ ext.id = pass.pre.status.externalId

\* C3 (deletion without finalizer): a deletion pass of either reconciler on
\* a record without the controller's finalizer token makes no provider call,
\* for every policy and every status.externalId, and returns success when
\* its status writes succeed.
C3_DeletionWithoutFinalizer ==
    (/\ pass.kind = "deletion"
     /\ ~HasOwnToken(pass.pre.finalizers))
    => /\ ProviderCalls = <<>>
       /\ StoreCallsOk => ~pass.err
       /\ ext = pass.preExt
\* such a pass on a record that knows an external id and another
\* controller's finalizer
C3_Witness ==
    /\ pass.kind = "deletion"
    /\ ~HasOwnToken(pass.pre.finalizers)
    /\ pass.pre.status.externalId # 0
    /\ pass.pre.policy # "orphan"
    /\ ext.exists /\ ext.id = pass.pre.status.externalId
    /\ ~pass.err

\* C4 (finalizer invariant): after a live pass of either reconciler that
\* returned success on a record whose policy is not read-only the finalizer token is on the
\* persisted record, and no pass adds the token to a record whose policy is
\* read-only.
C4_FinalizerInvariant ==
    /\ (pass.kind = "live" /\ ~pass.err /\ pass.pre.policy # "read-only")
        => rec.exists /\ HasOwnToken(rec.finalizers)
    /\ (/\ pass.kind \in {"live", "deletion"}
        /\ pass.pre.policy = "read-only"
        /\ ~HasOwnToken(pass.pre.finalizers))
        => ~HasOwnToken(rec.finalizers)
\* a successful first pass that added the token
C4_Witness ==
    /\ pass.kind = "live" /\ ~pass.err
    /\ pass.pre.policy # "read-only"
    /\ ~HasOwnToken(pass.pre.finalizers)
    /\ HasOwnToken(rec.finalizers)

\* the external network x is what the spec of record r asks for: the same
\* range as the provider prints it, the same labels
SpecMatchesExt(r, x) ==
    /\ r.crd = "HcloudNetwork"
    /\ x.exists /\ x.name = r.spec.name
    /\ r.spec.ipRange = IPNetString(x.ipRange)
    /\ r.spec.labels.kv = x.labels.kv

LabelDriftOnly ==
    /\ FoundByName
    /\ pass.pre.policy # "read-only"
    /\ pass.pre.spec.ipRange = IPNetString(pass.preExt.ipRange)
    /\ pass.pre.spec.labels.kv # {}
    /\ pass.pre.spec.labels.kv # pass.preExt.labels.kv
C6_LabelDriftOnly ==
    LabelDriftOnly =>
        /\ Len(CallsTo("UpdateNetworkLabels")) = 1
        /\ CallsTo("UpdateNetworkLabels")[1].labels = pass.pre.spec.labels
        /\ CallsTo("UpdateNetworkLabels")[1].id = pass.preExt.id
        /\ ~Called("UpdateNetworkCidr")
        /\ ~Called("CreateNetwork")
        /\ CallsTo("UpdateNetworkLabels")[1].ok =>
            /\ ext.labels.kv = pass.pre.spec.labels.kv
            /\ ext.ipRange = pass.preExt.ipRange
            /\ pass.obj.status.labels = ext.labels
        /\ AllCallsOk => rec.status.labels = ext.labels
\* an extra key at the provider was removed by the one update
C6_Witness ==
    /\ LabelDriftOnly /\ AllCallsOk
    /\ pass.pre.spec.labels.kv \subseteq pass.preExt.labels.kv
    /\ rec.status.labels = pass.pre.spec.labels
    /\ ext.labels = pass.pre.spec.labels

\* C7 (read-only skip): a live pass under policy read-only calls no provider
\* mutation whatever the drift; if the network is found and no call fails
\* the pass ends with Available=True and the status mirroring the network's
\* own id, range and labels; and a pass in which no call failed ends with
\* Available=False/Failed only if the network is missing.
ReadOnlyPass ==
    /\ pass.kind = "live" /\ pass.pre.crd = "HcloudNetwork"
    /\ pass.pre.policy = "read-only"
C7_ReadOnlySkip ==
    ReadOnlyPass =>
        /\ MutationCalls = <<>>
        /\ ext = pass.preExt
        /\ (FoundByName /\ AllCallsOk) =>
            /\ AvailableOf(rec.status).status = "True"
            /\ rec.status.externalId = pass.preExt.id
            /\ rec.status.ipRange = IPNetString(pass.preExt.ipRange)
            /\ rec.status.labels.kv = pass.preExt.labels.kv
        /\ (AllCallsOk /\ AvailableOf(rec.status).reason = "Failed")
            => (~pass.preExt.exists /\ AvailableOf(rec.status).status = "False"
                /\ ~pass.err)
\* a found network that differs from the spec in range and labels, mirrored
C7_Witness ==
    /\ ReadOnlyPass /\ FoundByName /\ AllCallsOk
    /\ pass.pre.spec.ipRange # IPNetString(pass.preExt.ipRange)
    /\ pass.pre.spec.labels.kv # pass.preExt.labels.kv
    /\ pass.pre.spec.labels.kv # {}
    /\ AvailableOf(rec.status).status = "True"
    /\ rec.status.ipRange # pass.pre.spec.ipRange
    /\ rec.status.labels # pass.pre.spec.labels

\* the deletion pass had the token, a policy other than orphan and a
\* non-zero status.externalId, so it asked the provider for the network by id
DrainAttempted ==
    /\ DeletionWithFinalizer
    /\ pass.pre.policy # "orphan"
    /\ pass.pre.status.externalId # 0
    /\ Called("GetNetworkById")
\* ... and GetNetworkById returned the network
DrainFound ==
    /\ DrainAttempted
    /\ CallsTo("GetNetworkById")[1].ok
    /\ pass.preExt.exists /\ pass.preExt.id = pass.pre.status.externalId
\* ... and GetNetworkById reported not-found: nil network, nil error
DrainNotFound ==
    /\ DrainAttempted
    /\ CallsTo("GetNetworkById")[1].ok
    /\ ~(pass.preExt.exists /\ pass.preExt.id = pass.pre.status.externalId)
\* the update that removes the finalizer token went through
FinalizerRemoved ==
    /\ Called("Update.RemoveFinalizer")
    /\ CallsTo("Update.RemoveFinalizer")[1].ok

\* C8 (deletion drain ordering): on the deletion path with the token, a
\* policy other than orphan and a non-zero status.externalId, when
\* GetNetworkById finds the network DeleteNetwork is called exactly once,
\* for that network and before any update that removes the finalizer token;
\* the token is removed, and success returned, only after DeleteNetwork
\* succeeded.
C8_DrainBeforeRelease ==
    DrainFound =>
        /\ Len(CallsTo("DeleteNetwork")) = 1
        /\ CallsTo("DeleteNetwork")[1].id = pass.pre.status.externalId
        /\ Called("Update.RemoveFinalizer") =>
            /\ FirstCall("DeleteNetwork") < FirstCall("Update.RemoveFinalizer")
            /\ CallsTo("DeleteNetwork")[1].ok
        /\ (~pass.err \/ ~HasOwnToken(rec.finalizers)) =>
            /\ CallsTo("DeleteNetwork")[1].ok
            /\ ~ext.exists
            /\ FinalizerRemoved
\* the network was deleted, then the token removed, and the pass succeeded
C8_Witness ==
    /\ DrainFound /\ ~pass.err
    /\ pass.pre.policy = "manage"
    /\ ~ext.exists
    /\ ~HasOwnToken(rec.finalizers)
    /\ FirstCall("DeleteNetwork") < FirstCall("Update.RemoveFinalizer")

\* C9 (deletion failure keeps the finalizer): if GetNetworkById or
\* DeleteNetwork, or GetZoneById or DeleteZone in the zone reconciler,
\* returns an error on the deletion path, the pass sets
\* Available=False/DeletionFailed on the record it holds, returns an error,
\* makes no attempt to remove the finalizer token, which stays on the
\* persisted record, and the condition is persisted when the status write of
\* the error branch succeeds.
DrainFailed ==
    /\ pass.kind = "deletion"
    /\ \E i \in 1..Len(pass.calls) :
         /\ pass.calls[i].op \in {"GetNetworkById", "DeleteNetwork",
                                  "GetZoneById", "DeleteZone"}
         /\ ~pass.calls[i].ok
C9_DeletionFailureKeepsFinalizer ==
    DrainFailed =>
        /\ pass.err
        /\ AvailableOf(pass.obj.status).status = "False"
        /\ AvailableOf(pass.obj.status).reason = "DeletionFailed"
        /\ ~Called("Update.RemoveFinalizer")
        /\ rec.exists /\ HasOwnToken(rec.finalizers)
        /\ pass.calls[Len(pass.calls)].op = "Status.Update"
        /\ pass.calls[Len(pass.calls)].ok =>
            /\ AvailableOf(rec.status).status = "False"
            /\ AvailableOf(rec.status).reason = "DeletionFailed"
\* DeleteNetwork failed on a network that was found; the network is still
\* there and the record still held
C9_Witness ==
    /\ DrainFailed /\ DrainFound
    /\ ~CallsTo("DeleteNetwork")[1].ok
    /\ pass.err
    /\ ext.exists
    /\ HasOwnToken(rec.finalizers)
    /\ AvailableOf(rec.status).reason = "DeletionFailed"

\* C10 (deletion of an already-gone network): on the deletion path with the
\* token, a policy other than orphan and a non-zero status.externalId, if
\* GetNetworkById reports not-found no DeleteNetwork call is issued, and
\* when the store writes of the pass succeed the finalizer token is removed
\* and the pass returns success.
C10_DeletionOfGoneNetwork ==
    DrainNotFound =>
        /\ ~Called("DeleteNetwork")
        /\ MutationCalls = <<>>
        /\ Called("Update.RemoveFinalizer")
        /\ StoreCallsOk =>
            /\ ~pass.err
            /\ ~HasOwnToken(rec.finalizers)
\* the network was deleted by hand before the record was; the pass released
\* the record
C10_Witness ==
    /\ DrainNotFound /\ ~pass.err
    /\ ~pass.preExt.exists
    /\ ~HasOwnToken(rec.finalizers)
    /\ ~Called("DeleteNetwork")

\* the lookup by name of a live pass of the network reconciler reported
\* not-found: nil network, nil error
NotFoundByName ==
    /\ pass.kind = "live" /\ pass.pre.crd = "HcloudNetwork"
    /\ Called("GetNetworkByName")
    /\ CallsTo("GetNetworkByName")[1].ok
    /\ ~pass.preExt.exists

\* C11 (create on not-found): in a live pass under policy manage or orphan
\* whose lookup by name reported not-found, exactly one CreateNetwork call is
\* issued, carrying the spec's name, ipRange and labels; when it succeeds the
\* pass sets status.externalId to the created id, mirrors the range and the
\* labels of the returned network, sets Available=True/Ready and
\* observedGeneration to the record's generation, and when no call of the
\* pass failed all of that is persisted and the pass returns success.
CreateOnNotFound ==
    /\ NotFoundByName
    /\ pass.pre.policy \in {"manage", "orphan"}
C11_CreateOnNotFound ==
    CreateOnNotFound =>
        /\ Len(CallsTo("CreateNetwork")) = 1
        /\ CallsTo("CreateNetwork")[1].cidr = pass.pre.spec.ipRange
        /\ CallsTo("CreateNetwork")[1].labels = pass.pre.spec.labels
        /\ CallsTo("CreateNetwork")[1].ok =>
            /\ ext.exists /\ ext.name = pass.pre.spec.name
            /\ ext.labels.kv = pass.pre.spec.labels.kv
            /\ pass.obj.status.externalId = ext.id
            /\ pass.obj.status.ipRange = IPNetString(ext.ipRange)
            /\ pass.obj.status.labels.kv = ext.labels.kv
            /\ AvailableOf(pass.obj.status).status = "True"
            /\ AvailableOf(pass.obj.status).reason = "Ready"
            /\ AvailableOf(pass.obj.status).observedGeneration = pass.pre.generation
            /\ pass.obj.status.observedGeneration = pass.pre.generation
        /\ AllCallsOk =>
            /\ ~pass.err
            /\ rec.status.externalId = ext.id /\ ext.id # 0
            /\ rec.status.ipRange = IPNetString(ext.ipRange)
            /\ rec.status.labels.kv = ext.labels.kv
            /\ AvailableOf(rec.status).status = "True"
            /\ AvailableOf(rec.status).reason = "Ready"
            /\ rec.status.observedGeneration = rec.generation
\* a network created under policy orphan from a spec with labels
C11_Witness ==
    /\ CreateOnNotFound /\ AllCallsOk /\ ~pass.err
    /\ pass.pre.policy = "orphan"
    /\ pass.pre.status.externalId = 0
    /\ pass.pre.spec.labels.kv # {}
    /\ ext.exists /\ rec.status.externalId = ext.id
    /\ AvailableOf(rec.status).reason = "Ready"

\* a CreateNetwork call of the last pass returned an error
CreateFailed ==
    /\ pass.kind = "live"
    /\ Called("CreateNetwork")
    /\ ~CallsTo("CreateNetwork")[1].ok

\* C12 (create failure): if CreateNetwork returns an error the pass sets
\* Available=False/Failed, writes the status, returns an error, and leaves
\* the persisted status.externalId and status.observedGeneration as they
\* were before the pass; the persisted condition is Failed when that status
\* write succeeds and is Available=False in any case.
C12_CreateFailure ==
    CreateFailed =>
        /\ pass.err
        /\ AvailableOf(pass.obj.status).status = "False"
        /\ AvailableOf(pass.obj.status).reason = "Failed"
        /\ pass.calls[Len(pass.calls)].op = "Status.Update"
        /\ pass.calls[Len(pass.calls)].ok =>
            AvailableOf(rec.status).reason = "Failed"
        /\ AvailableOf(rec.status).status = "False"
        /\ rec.status.externalId = pass.pre.status.externalId
        /\ rec.status.observedGeneration = pass.pre.status.observedGeneration
        /\ ext = pass.preExt
\* a first pass whose create the provider refused: Failed is persisted and
\* no generation is observed
C12_Witness ==
    /\ CreateFailed /\ pass.err
    /\ ParseCIDR(pass.pre.spec.ipRange).err = FALSE
    /\ AvailableOf(rec.status).reason = "Failed"
    /\ rec.status.externalId = 0
    /\ rec.status.observedGeneration # rec.generation

\* an UpdateNetworkLabels or UpdateNetworkCidr call of the last pass returned
\* an error
UpdateFailed ==
    /\ pass.kind = "live"
    /\ \E i \in 1..Len(pass.calls) :
         /\ pass.calls[i].op \in {"UpdateNetworkLabels", "UpdateNetworkCidr"}
         /\ ~pass.calls[i].ok

\* C13 (update failure): if UpdateNetworkLabels or UpdateNetworkCidr returns
\* an error the pass sets Available=False/Failed, writes the status, returns
\* an error, and leaves the persisted status.observedGeneration,
\* status.externalId, status.ipRange and status.labels as they were before
\* the pass; the persisted condition is Failed when that status write
\* succeeds and is Available=False in any case.
C13_UpdateFailure ==
    UpdateFailed =>
        /\ pass.err
        /\ AvailableOf(pass.obj.status).status = "False"
        /\ AvailableOf(pass.obj.status).reason = "Failed"
        /\ pass.calls[Len(pass.calls)].op = "Status.Update"
        /\ pass.calls[Len(pass.calls)].ok =>
            AvailableOf(rec.status).reason = "Failed"
        /\ AvailableOf(rec.status).status = "False"
        /\ rec.status.observedGeneration = pass.pre.status.observedGeneration
        /\ rec.status.externalId = pass.pre.status.externalId
        /\ rec.status.ipRange = pass.pre.status.ipRange
        /\ rec.status.labels = pass.pre.status.labels
\* the labels were updated at the provider, the CIDR update then failed, and
\* the status still shows neither
C13_Witness ==
    /\ UpdateFailed /\ pass.err
    /\ Called("UpdateNetworkLabels") /\ CallsTo("UpdateNetworkLabels")[1].ok
    /\ Called("UpdateNetworkCidr") /\ ~CallsTo("UpdateNetworkCidr")[1].ok
    /\ ext.labels # pass.preExt.labels
    /\ rec.status.labels = pass.pre.status.labels
    /\ rec.status.labels.kv # ext.labels.kv
    /\ AvailableOf(rec.status).reason = "Failed"

\* C14 (read-only and not found): in a live pass under policy read-only
\* whose lookup by name reported not-found, no CreateNetwork (and no other
\* provider mutation) is called and Available=False/Failed is set; when the
\* status write that follows succeeds the condition is persisted and the
\* pass returns success. And it is the only path on which a pass that ends
\* with a persisted Available=False/Failed returns success.
ReadOnlyNotFound ==
    /\ NotFoundByName
    /\ pass.pre.policy = "read-only"
C14_ReadOnlyNotFound ==
    /\ ReadOnlyNotFound =>
        /\ ~Called("CreateNetwork")
        /\ MutationCalls = <<>>
        /\ ext = pass.preExt
        /\ AvailableOf(pass.obj.status).status = "False"
        /\ AvailableOf(pass.obj.status).reason = "Failed"
        /\ pass.calls[Len(pass.calls)].op = "Status.Update"
        /\ pass.calls[Len(pass.calls)].ok =>
            /\ ~pass.err
            /\ AvailableOf(rec.status).status = "False"
            /\ AvailableOf(rec.status).reason = "Failed"
    /\ (/\ pass.kind \in {"live", "deletion"}
        /\ ~pass.err
        /\ rec.exists
        /\ AvailableOf(rec.status).reason = "Failed")
        => ReadOnlyNotFound
\* such a pass on a record that names a network deleted by hand
C14_Witness ==
    /\ ReadOnlyNotFound /\ ~pass.err
    /\ AvailableOf(rec.status).status = "False"
    /\ AvailableOf(rec.status).reason = "Failed"
    /\ rec.status.externalId # 0
    /\ ~ext.exists

\* C15 (sync-policy defaulting): a live pass of either reconciler on a record
\* without a sync-policy annotation writes the annotation manage to the store
\* once its first status write went through, before any update that adds the
\* finalizer and before any provider call; and no pass changes a sync-policy
\* value the record already carries.
NeedsDefaultPolicy == pass.kind = "live" /\ pass.pre.policy = NoPolicy
C15_PolicyDefaulting ==
    /\ NeedsDefaultPolicy =>
        /\ CallsTo("Status.Update")[1].ok =>
            /\ Called("Update.Annotation")
            /\ FirstCall("Update.Annotation") = 3
        /\ \A i \in 1..Len(pass.calls) :
            pass.calls[i].op \in ProviderOps \cup {"Update.AddFinalizer"} =>
                /\ Called("Update.Annotation")
                /\ CallsTo("Update.Annotation")[1].ok
                /\ FirstCall("Update.Annotation") < i
        /\ (Called("Update.Annotation") /\ CallsTo("Update.Annotation")[1].ok)
            => rec.policy = "manage"
    /\ (pass.kind \in {"live", "deletion"} /\ pass.pre.policy # NoPolicy) =>
        /\ ~Called("Update.Annotation")
        /\ rec.exists => rec.policy = pass.pre.policy
\* a first pass that defaulted the policy, then added the finalizer and
\* created the network
C15_Witness ==
    /\ NeedsDefaultPolicy /\ ~pass.err
    /\ rec.policy = "manage"
    /\ Called("Update.AddFinalizer") /\ Called("CreateNetwork")
    /\ FirstCall("Update.Annotation") < FirstCall("Update.AddFinalizer")
    /\ FirstCall("Update.AddFinalizer") < FirstCall("CreateNetwork")

\* the network record of the last pass carries a sync-policy value that is
\* none of manage, read-only and orphan (the empty value is defaulted to
\* manage)
UnknownPolicyPass ==
    /\ pass.kind \in {"live", "deletion"}
    /\ pass.pre.crd = "HcloudNetwork"
    /\ pass.pre.policy \notin {NoPolicy, "manage", "read-only", "orphan"}

\* C16 (unknown sync-policy strings fail closed): under a sync-policy value
\* other than manage, read-only and orphan a pass behaves as under
\* read-only, calling no CreateNetwork, no update and no delete at the
\* provider and adding no finalizer token, and a live pass in which no call
\* failed ends with the condition Available=False, reason InvalidSyncPolicy.
C16_UnknownPolicyFailsClosed ==
    UnknownPolicyPass =>
        /\ MutationCalls = <<>>
        /\ ext = pass.preExt
        /\ ~Called("Update.AddFinalizer")
        /\ ~HasOwnToken(pass.pre.finalizers) => ~HasOwnToken(rec.finalizers)
        /\ (pass.kind = "live" /\ AllCallsOk) =>
            /\ AvailableOf(rec.status).status = "False"
            /\ AvailableOf(rec.status).reason = "InvalidSyncPolicy"
\* what the reconciler does instead: under an unknown value it takes the
\* finalizer, creates the network and reports Ready
C16_Witness ==
    /\ UnknownPolicyPass /\ pass.kind = "live" /\ AllCallsOk
    /\ ~HasOwnToken(pass.pre.finalizers) /\ HasOwnToken(rec.finalizers)
    /\ Called("CreateNetwork") /\ ext.exists
    /\ AvailableOf(rec.status).status = "True"
    /\ AvailableOf(rec.status).reason = "Ready"

\* C17 (read-only never deletes the external resource): no pass on a record
\* whose sync policy is read-only calls DeleteNetwork or DeleteZone, a
\* deletion pass with the finalizer token present and a non-zero
\* status.externalId included, and the external resource is left as it was.
C17_ReadOnlyNeverDeletes ==
    (/\ pass.kind \in {"live", "deletion"}
     /\ pass.pre.policy = "read-only")
    => /\ ~Called("DeleteNetwork") /\ ~Called("DeleteZone")
       /\ ext = pass.preExt
\* what the reconciler does instead: the token was added under manage, the
\* policy then set to read-only, and the deletion pass deleted the network
C17_Witness ==
    /\ DeletionWithFinalizer
    /\ pass.pre.policy = "read-only"
    /\ pass.pre.crd = "HcloudNetwork"
    /\ pass.pre.status.externalId # 0
    /\ Called("DeleteNetwork") /\ CallsTo("DeleteNetwork")[1].ok
    /\ pass.preExt.exists /\ ~ext.exists
    /\ ~pass.err

\* the id the last pass of the network reconciler obtained from a successful
\* GetNetworkByName that found the network or from a successful
\* CreateNetwork; 0 if it obtained none
ObtainedId ==
    IF FoundByName THEN pass.preExt.id
    ELSE IF Called("CreateNetwork") /\ CallsTo("CreateNetwork")[1].ok
    THEN ext.id
    ELSE 0

\* C18 (externalId bookkeeping): the persisted status.externalId of a network
\* record is 0 or an id the provider has issued; a step changes it only if
\* it is a pass of the reconciler that obtained the new value from a
\* successful GetNetworkByName or CreateNetwork; and no step takes a
\* non-zero value back to 0 on a record that stays in the store.
C18_ExternalIdBookkeeping ==
    /\ [](rec.crd = "HcloudNetwork" =>
            /\ rec.status.externalId \in 0..(nextId - 1)
            /\ ~rec.exists => rec.status.externalId = 0)
    /\ [][(/\ rec.crd = "HcloudNetwork" /\ rec'.exists
           /\ rec'.status.externalId # rec.status.externalId)
          => (/\ pass'.kind = "live"
              /\ ObtainedId' # 0
              /\ rec'.status.externalId = ObtainedId')]_vars
    /\ [][(/\ rec.crd = "HcloudNetwork" /\ rec'.exists
           /\ rec.status.externalId # 0)
          => rec'.status.externalId # 0]_vars
\* a record that named a network deleted by hand now names the one a later
\* pass created in its place
C18_Witness ==
    /\ pass.kind = "live" /\ pass.pre.crd = "HcloudNetwork"
    /\ pass.pre.status.externalId # 0
    /\ Called("CreateNetwork") /\ CallsTo("CreateNetwork")[1].ok
    /\ rec.status.externalId = ObtainedId
    /\ rec.status.externalId # pass.pre.status.externalId

(* ------------------------------- C19 --------------------------------- *)
\* the record is a network record that the last pass, a live one, left with
\* status.observedGeneration equal to its generation
WatermarkAtGeneration ==
    /\ pass.kind = "live" /\ pass.pre.crd = "HcloudNetwork"
    /\ rec.exists /\ rec.status.observedGeneration = rec.generation
\* the external network carries the spec: its range is the network the
\* spec's ipRange parses to, and its labels are the spec's when the spec has
\* labels
ExternalEqualsSpec ==
    /\ ext.exists
    /\ ~ParseCIDR(rec.spec.ipRange).err
    /\ ext.ipRange = ParseCIDR(rec.spec.ipRange).net
    /\ ~rec.spec.labels.nil => ext.labels.kv = rec.spec.labels.kv
AvailableReady ==
    /\ AvailableOf(rec.status).status = "True"
    /\ AvailableOf(rec.status).reason = "Ready"
\* a failure condition against the record's generation
FailureRecorded ==
    /\ AvailableOf(rec.status).status = "False"
    /\ AvailableOf(rec.status).reason = "Failed"
    /\ AvailableOf(rec.status).observedGeneration = rec.generation
\* the Progressing condition of the last pass reached the store
ProgressingWritten ==
    /\ Len(pass.calls) >= 2
    /\ pass.calls[2].op = "Status.Update" /\ pass.calls[2].ok
\* the status mirrors the external network
StatusMirrorsExternal ==
    /\ ext.exists
    /\ rec.status.externalId = ext.id
    /\ rec.status.ipRange = IPNetString(ext.ipRange)
    /\ rec.status.labels.kv = ext.labels.kv

FailedPass ==
    /\ pass.kind \in {"live", "deletion"}
    /\ pass.err
\* the persisted Available condition is False against the generation the
\* last pass attempted
FalseAtAttemptedGeneration ==
    /\ rec.exists
    /\ AvailableOf(rec.status).status = "False"
    /\ AvailableOf(rec.status).observedGeneration = pass.pre.generation

\* C20 as stated, in the case it names: whenever a pass that began with a
\* persisted Available=True returns an error from a provider call or a store
\* write, the persisted Available condition is False with observedGeneration
\* equal to the generation the pass attempted.
C20_NoStaleSuccessAsStated ==
    (FailedPass /\ AvailableOf(pass.pre.status).status = "True")
        => FalseAtAttemptedGeneration

\* C20, amended: whenever the pass returns an error after its initial
\* Progressing status write succeeded, the persisted Available condition is
\* False with observedGeneration equal to the generation the pass attempted,
\* so an Available=True from an earlier pass does not survive; a pass whose
\* initial status write fails returns the error and leaves the stored record
\* as it was, an earlier Available=True included.
C20_NoStaleSuccess ==
    /\ (FailedPass /\ ProgressingWritten) => FalseAtAttemptedGeneration
    /\ (FailedPass /\ ~ProgressingWritten) => rec = pass.pre

\* a pass at the second generation failed at the provider after an earlier
\* pass had persisted Available=True at the first
C20_Witness ==
    /\ FailedPass /\ ProgressingWritten
    /\ pass.pre.generation = 2
    /\ AvailableOf(pass.pre.status).status = "True"
    /\ AvailableOf(pass.pre.status).observedGeneration = 1
    /\ AvailableOf(rec.status).reason = "Failed"
    /\ AvailableOf(rec.status).observedGeneration = 2

(* ------------------------------- C21 --------------------------------- *)
\* the tokens of fs that are not the controller's own, in order
ForeignTokens(fs) == SelectSeq(fs, LAMBDA x : x # finalizerName)
\* how often the controller's own token occurs in fs
OwnTokenCount(fs) == Len(SelectSeq(fs, LAMBDA x : x = finalizerName))

\* C21 (own token only): every pass leaves the finalizer tokens other than
\* the controller's own on the record as they were, in order (the record is
\* erased only when there were none); the own token is never on the record
\* twice; and a pass on a record that already carries the own token issues
\* no write that adds it.
C21_OwnTokenOnly ==
    pass.kind # "none" =>
        /\ rec.exists => ForeignTokens(rec.finalizers)
                            = ForeignTokens(pass.pre.finalizers)
        /\ (pass.pre.exists /\ ~rec.exists) =>
              ForeignTokens(pass.pre.finalizers) = <<>>
        /\ OwnTokenCount(rec.finalizers) <= 1
        /\ HasOwnToken(pass.pre.finalizers) => ~Called("Update.AddFinalizer")
\* a deletion pass took the own token off a record on which another
\* controller still holds its finalizer
C21_Witness ==
    /\ pass.kind = "deletion" /\ ~pass.err
    /\ pass.pre.finalizers = <<otherFinalizer, finalizerName>>
    /\ rec.exists /\ rec.finalizers = <<otherFinalizer>>

(* ------------------------------- C22 --------------------------------- *)
\* the calls of the last pass that write to the store
StoreWrites ==
    SelectSeq(pass.calls, LAMBDA e : e.op \notin ProviderOps /\ e.op # "Get")

\* C22 (absent record): a pass for a key whose record is not in the store
\* returns success with an empty result, calls the provider zero times and
\* writes nothing to the store; a pass whose load fails otherwise returns an
\* error, also with zero provider calls and no write; in both cases the
\* store and the provider are left as they were.
C22_AbsentRecord ==
    /\ (pass.kind # "none" /\ ~pass.pre.exists) =>
            pass.kind \in {"absent", "loadfail"}
    /\ pass.kind = "absent" =>
        /\ ~pass.err /\ pass.result = EmptyResult
        /\ Len(ProviderCalls) = 0 /\ Len(StoreWrites) = 0
        /\ rec = pass.pre /\ ext = pass.preExt
    /\ pass.kind = "loadfail" =>
        /\ pass.err
        /\ Len(ProviderCalls) = 0 /\ Len(StoreWrites) = 0
        /\ rec = pass.pre /\ ext = pass.preExt
\* a pass for a record that was erased while an external resource of its
\* name still exists
C22_Witness ==
    /\ pass.kind = "absent" /\ ~pass.err
    /\ ~rec.exists /\ ext.exists

(* ------------------------------- C23 --------------------------------- *)
\* the found network differs from the spec in its labels and, as a network,
\* in its range, under a policy other than read-only
BothDrift ==
    /\ FoundByName
    /\ pass.pre.crd = "HcloudNetwork"
    /\ pass.pre.policy # "read-only"
    /\ pass.pre.spec.labels.kv # {}
    /\ pass.pre.spec.labels.kv # pass.preExt.labels.kv
    /\ ~ParseCIDR(pass.pre.spec.ipRange).err
    /\ ParseCIDR(pass.pre.spec.ipRange).net # pass.preExt.ipRange
\* the update calls of the last pass, in order
UpdateCalls ==
    SelectSeq(pass.calls,
              LAMBDA e : e.op \in {"UpdateNetworkLabels", "UpdateNetworkCidr"})

\* C23 (at most one update per pass): when the found network has both label
\* drift and CIDR drift under a policy other than read-only, the pass issues
\* only one update call to the provider.
C23_AtMostOneUpdate ==
    BothDrift => Len(UpdateCalls) <= 1
\* a pass on a network with both drifts whose calls all succeeded issued the
\* label update and the CIDR update, and nothing is left for the next pass
C23_Witness ==
    /\ BothDrift /\ AllCallsOk
    /\ Len(UpdateCalls) = 2
    /\ ext.labels.kv = rec.spec.labels.kv
    /\ ext.ipRange = ParseCIDR(rec.spec.ipRange).net

(* ------------------------------- C24 --------------------------------- *)
\* C24 (labels before structural): in a pass that issues both update calls
\* UpdateNetworkLabels comes first; when the CIDR update then fails, the
\* labels the label update applied are still on the external network; and a
\* failing label update ends the pass with an error before any CIDR update,
\* with the external network as it was.
C24_LabelsBeforeCidr ==
    /\ (Called("UpdateNetworkLabels") /\ Called("UpdateNetworkCidr")) =>
        /\ FirstCall("UpdateNetworkLabels") < FirstCall("UpdateNetworkCidr")
        /\ CallsTo("UpdateNetworkLabels")[1].ok
        /\ ext.exists /\ ext.id = pass.preExt.id
        /\ ext.labels.kv = pass.pre.spec.labels.kv
    /\ (Called("UpdateNetworkLabels")
            /\ ~CallsTo("UpdateNetworkLabels")[1].ok) =>
        /\ ~Called("UpdateNetworkCidr")
        /\ pass.err
        /\ ext = pass.preExt
\* the label update went through, the CIDR update after it failed, and the
\* external network carries the new labels
C24_Witness ==
    /\ Called("UpdateNetworkLabels") /\ Called("UpdateNetworkCidr")
    /\ ~CallsTo("UpdateNetworkCidr")[1].ok /\ pass.err
    /\ pass.preExt.labels.kv # pass.pre.spec.labels.kv
    /\ ext.labels.kv = pass.pre.spec.labels.kv
    /\ ext.ipRange = pass.preExt.ipRange

(* ------------------------------- C25 --------------------------------- *)
\* the last pass ran on a live network record whose spec has no labels: a
\* nil map or an empty one
NoDesiredLabels ==
    /\ pass.kind = "live" /\ pass.pre.crd = "HcloudNetwork"
    /\ pass.pre.spec.labels.kv = {}

\* C25 (empty desired labels are no opinion): a pass on a record whose
\* spec.labels is nil or an empty map issues no UpdateNetworkLabels call,
\* and the labels of an external network that was there before the pass are
\* the same after it.
C25_EmptyLabelsNoOpinion ==
    NoDesiredLabels =>
        /\ ~Called("UpdateNetworkLabels")
        /\ (pass.preExt.exists /\ ext.exists) =>
              ext.labels.kv = pass.preExt.labels.kv
\* a pass on a record with an empty, non-nil labels map found a labelled
\* network and replaced its labels by none
C25_Witness ==
    /\ NoDesiredLabels /\ ~pass.pre.spec.labels.nil
    /\ pass.preExt.exists /\ pass.preExt.labels.kv # {}
    /\ Called("UpdateNetworkLabels") /\ CallsTo("UpdateNetworkLabels")[1].ok
    /\ CallsTo("UpdateNetworkLabels")[1].labels.kv = {}
    /\ ext.exists /\ ext.labels.kv = {}

(* ------------------------------- C26 --------------------------------- *)
\* the last pass found the network under a policy other than read-only, the
\* spec's ipRange parses, and no failing label update ended the pass before
\* the CIDR was looked at
CidrCompared ==
    /\ FoundByName
    /\ pass.pre.crd = "HcloudNetwork"
    /\ pass.pre.policy # "read-only"
    /\ ~ParseCIDR(pass.pre.spec.ipRange).err
    /\ Called("UpdateNetworkLabels") => CallsTo("UpdateNetworkLabels")[1].ok

\* C26 (CIDR drift by value): on a found network the pass issues
\* UpdateNetworkCidr exactly when the network the spec's ipRange denotes
\* differs from the external network's range; the same network written
\* differently triggers no call.
C26_CidrDriftByValue ==
    CidrCompared =>
        (Called("UpdateNetworkCidr")
            <=> ParseCIDR(pass.pre.spec.ipRange).net # pass.preExt.ipRange)
\* the spec names the external network's range with host bits set, and the
\* pass asked the provider to change the range to the one it already has
C26_Witness ==
    /\ CidrCompared /\ AllCallsOk
    /\ ParseCIDR(pass.pre.spec.ipRange).net = pass.preExt.ipRange
    /\ pass.pre.spec.ipRange # IPNetString(pass.preExt.ipRange)
    /\ Called("UpdateNetworkCidr")
    /\ ext.ipRange = pass.preExt.ipRange

(* ------------------------------- C27 --------------------------------- *)
\* the last call of the last pass was a status write that failed
FinalStatusWriteFailed ==
    /\ Len(pass.calls) > 0
    /\ pass.calls[Len(pass.calls)].op = "Status.Update"
    /\ ~pass.calls[Len(pass.calls)].ok
\* the last pass created the network and then failed to persist the status
CreatedButNotPersisted ==
    /\ pass.kind = "live"
    /\ Called("CreateNetwork") /\ CallsTo("CreateNetwork")[1].ok
    /\ FinalStatusWriteFailed
\* the last pass updated the network and then failed to persist the status
UpdatedButNotPersisted ==
    /\ pass.kind = "live"
    /\ Len(UpdateCalls) > 0
    /\ \A i \in 1..Len(UpdateCalls) : UpdateCalls[i].ok
    /\ FinalStatusWriteFailed

\* C27 (status write failing after a mutation): a pass whose CreateNetwork
\* or update succeeded and whose following status write failed returns an
\* error; the pass that follows it with the network still there finds the
\* network by name, does not call CreateNetwork, and when its calls succeed
\* persists the existing id in status.externalId; and no pass ever calls
\* CreateNetwork while a network of the spec's name exists, so the
\* controller never holds two.
C27_StatusWriteFailureNoDuplicate ==
    /\ []((CreatedButNotPersisted \/ UpdatedButNotPersisted) =>
            /\ pass.err
            /\ ext.exists /\ rec.exists
            /\ rec.status.externalId = pass.pre.status.externalId)
    /\ [](Called("CreateNetwork") =>
            /\ ~pass.preExt.exists
            /\ Len(CallsTo("CreateNetwork")) = 1)
    /\ [][(CreatedButNotPersisted /\ pass'.kind = "live") =>
            /\ ~Called("CreateNetwork")'
            /\ ext'.exists /\ ext'.id = ext.id
            /\ (Called("GetNetworkByName")'
                    /\ CallsTo("GetNetworkByName")'[1].ok) => FoundByName'
            /\ AllCallsOk' => rec'.status.externalId = ext.id]_vars
\* a network was created and the record still carries no id, because the
\* status write after the creation failed
C27_Witness ==
    /\ CreatedButNotPersisted /\ pass.err
    /\ rec.status.externalId = 0
    /\ ext.exists /\ ext.id # 0

(* ------------------------------- C28 --------------------------------- *)
\* the conditions of conds that are not of type Available, in order
OtherConditions(conds) == SelectSeq(conds, LAMBDA x : x.type # "Available")
\* how many conditions of conds are of type Available
AvailableCount(conds) ==
    Len(SelectSeq(conds, LAMBDA x : x.type = "Available"))

\* C28 (single Available condition): the stored conditions never hold more
\* than one entry of type Available; a pass that read the record leaves the
\* entries of other types as they were, in order; where an Available entry
\* was stored before the pass the list keeps its length and the entry its
\* position, and where none was the pass appends one at the end once its
\* first status write succeeds.
C28_SingleAvailableCondition ==
    /\ AvailableCount(rec.status.conditions) <= 1
    /\ (pass.kind \in {"live", "deletion"} /\ rec.exists) =>
        /\ OtherConditions(rec.status.conditions)
              = OtherConditions(pass.pre.status.conditions)
        /\ FindStatusCondition(pass.pre.status.conditions, "Available") # 0 =>
            /\ Len(rec.status.conditions) = Len(pass.pre.status.conditions)
            /\ FindStatusCondition(rec.status.conditions, "Available")
                = FindStatusCondition(pass.pre.status.conditions, "Available")
        /\ (FindStatusCondition(pass.pre.status.conditions, "Available") = 0
                /\ ProgressingWritten) =>
            /\ Len(rec.status.conditions)
                = Len(pass.pre.status.conditions) + 1
            /\ rec.status.conditions[Len(rec.status.conditions)].type
                = "Available"
\* a pass replaced the Available condition that stood before another
\* client's condition, and the other condition is still second
C28_Witness ==
    /\ pass.kind = "live" /\ ~pass.err
    /\ Len(pass.pre.status.conditions) = 2
    /\ pass.pre.status.conditions[1].type = "Available"
    /\ pass.pre.status.conditions[1].reason = "Failed"
    /\ Len(rec.status.conditions) = 2
    /\ rec.status.conditions[1].type = "Available"
    /\ rec.status.conditions[1].reason = "Ready"
    /\ rec.status.conditions[2] = otherCondition

(* ------------------------------- C29 --------------------------------- *)
\* C29 (no internal retry): a pass calls each provider operation at most
\* once; after the first call that failed, a provider call or a store read
\* or write, it makes no further provider call and returns an error; and
\* whatever it returns, the result asks for no requeue.
C29_NoInternalRetry ==
    /\ \A op \in ProviderOps : Len(CallsTo(op)) <= 1
    /\ \A i \in 1..Len(pass.calls) :
          ~pass.calls[i].ok =>
              /\ pass.err
              /\ \A j \in (i + 1)..Len(pass.calls) :
                    pass.calls[j].op \notin ProviderOps
    /\ pass.result = EmptyResult
\* the label update went through, the CIDR update failed, and the pass ended
\* with the one status write that records the failure
C29_Witness ==
    /\ pass.kind = "live" /\ pass.err
    /\ Called("UpdateNetworkLabels") /\ CallsTo("UpdateNetworkLabels")[1].ok
    /\ Called("UpdateNetworkCidr") /\ ~CallsTo("UpdateNetworkCidr")[1].ok
    /\ FirstCall("UpdateNetworkCidr") = Len(pass.calls) - 1
    /\ pass.calls[Len(pass.calls)].op = "Status.Update"

(* ------------------------------- C30 --------------------------------- *)
\* the record is under deletion and carries the controller's token
DeletionPending ==
    /\ rec.exists /\ rec.deletionTimestamp
    /\ HasOwnToken(rec.finalizers)
\* the last pass, a deletion pass, took the controller's token off the
\* record
Released == DeletionWithFinalizer /\ FinalizerRemoved

\* C30 (deletion eventually completes): under a trigger that re-invokes
\* Reconcile until a pass meets no failing call, a record under deletion
\* that carries the finalizer token is eventually erased from the store;
\* and when a deletion pass takes the token off, the network the controller
\* created for the record is gone under policy manage and is left as it was
\* under policy orphan.
C30_DeletionCompletes ==
    /\ DeletionPending ~> ~rec.exists
    /\ [](Released =>
            /\ pass.pre.policy = "manage" => ~ext.exists
            /\ pass.pre.policy = "orphan" => ext = pass.preExt)
\* a record under policy manage was released and erased while the network an
\* earlier pass had created for it, without persisting its id, still exists
C30_Witness ==
    /\ Released /\ ~rec.exists
    /\ pass.pre.policy = "manage"
    /\ pass.pre.status.externalId = 0
    /\ Len(ProviderCalls) = 0
    /\ ext.exists

(* ------------------------------- C31 --------------------------------- *)
\* both invocations have returned
BothDone == \A k \in Keys : pass.proc[k].pc = "done"
\* the two passes run whole, the one for key k1 first, from where the
\* interleaved run started
OneAfterTheOther(k1, k2) ==
    LET r1 == Reconcile(pass.pre[k1], pass.preExt[NameOf(k1)],
                        pass.preNextId, pass.proc[k1].f)
        r2 == Reconcile(pass.pre[k2], pass.preExt[NameOf(k2)],
                        r1.nextId, pass.proc[k2].f)
    IN [k \in Keys |-> IF k = k1 THEN r1 ELSE r2]
\* the interleaved run ended as the sequential run s did, key by key
SameOutcome(s) ==
    \A k \in Keys :
        /\ rec[k] = s[k].st
        /\ ext[NameOf(k)] = s[k].ext
        /\ pass.proc[k].calls = s[k].calls
        /\ pass.proc[k].err = s[k].err
        /\ pass.proc[k].result = s[k].result
\* a step of the invocation for key k
StepOf(k) == pass'.proc[k] # pass.proc[k]

\* C31 (cross-key independence): when the passes for two keys whose records
\* name different networks are interleaved call by call, each record, each
\* network, each pass's list of calls and each pass's return are, once both
\* have returned, what running the two passes one after the other in one of
\* the two orders gives; and a step of one pass leaves the other key's
\* record and the other key's network as they were.
C31_CrossKeyIndependence ==
    /\ [](BothDone => \/ SameOutcome(OneAfterTheOther("a", "b"))
                      \/ SameOutcome(OneAfterTheOther("b", "a")))
    /\ [][\A k \in Keys : StepOf(k) =>
            \A j \in Keys \ {k} :
                /\ rec'[j] = rec[j]
                /\ ext'[NameOf(j)] = ext[NameOf(j)]
                /\ pass'.proc[j] = pass.proc[j]]_vars
\* both passes have returned, each created its network, the one for key b
\* first, and calls of the one were made while the other was under way
C31_Witness ==
    /\ BothDone /\ pass.overlapped
    /\ \A k \in Keys :
         \E i \in 1..Len(pass.proc[k].calls) :
            /\ pass.proc[k].calls[i].op \in MutationOps
            /\ pass.proc[k].calls[i].ok
    /\ ext[NameOf("a")].exists /\ ext[NameOf("b")].exists
    /\ ext[NameOf("a")].id > ext[NameOf("b")].id
    /\ pass.preNextId = 1

(* ------------------------------- C32 --------------------------------- *)
\* the last pass was a live pass of the zone reconciler under policy manage
\* (an absent annotation is defaulted to manage) that returned success
ZoneLiveSuccess ==
    /\ pass.kind = "live" /\ pass.pre.crd = "HcloudDnsZone"
    /\ pass.pre.policy \in {NoPolicy, "manage"}
    /\ ~pass.err

\* C32 (zone live path): a live pass of the zone reconciler under policy
\* manage that returns success leaves a zone of the record's name at the
\* provider, status.zoneId set to its id, the persisted Available condition
\* True/Ready and status.observedGeneration equal to the generation.
C32_ZoneLivePath ==
    ZoneLiveSuccess =>
        /\ ext.exists /\ ext.name = pass.pre.spec.name
        /\ rec.status.externalId = ext.id
        /\ AvailableOf(rec.status).status = "True"
        /\ AvailableOf(rec.status).reason = "Ready"
        /\ rec.status.observedGeneration = rec.generation
\* a zone pass under manage returned success having asked the provider
\* nothing, with the in-progress condition persisted and no zone id
C32_Witness ==
    /\ ZoneLiveSuccess
    /\ pass.pre.policy = "manage"
    /\ HasOwnToken(rec.finalizers)
    /\ Len(ProviderCalls) = 0
    /\ ~ext.exists
    /\ rec.status.externalId = 0
    /\ AvailableOf(rec.status).reason = "Progressing"
    /\ rec.status.observedGeneration = 0

(* ------------------------------- C33 --------------------------------- *)
\* the last pass called UpdateNetworkCidr; e is that call
CidrCall == CallsTo("UpdateNetworkCidr")[1]
\* the names of the requests the call sent, in order
RequestNames(e) == [i \in 1..Len(e.reqs) |-> e.reqs[i].req]
\* the network the controller went on with after the call: the one it
\* mirrored into the status
WentOnWithNetwork ==
    /\ Called("Status.Update")
    /\ CallsTo("Status.Update")[Len(CallsTo("Status.Update"))].reason = "Ready"

\* C33 (UpdateNetworkCidr is awaited): a call of UpdateNetworkCidr returns a
\* network and no error only after ChangeIPRange succeeded, then the wait for
\* its action succeeded, then the network was read again by id; with a CIDR
\* that does not parse it sends no request; and when a step fails it returns
\* the error and no network and sends no later request.
C33_CidrUpdateAwaited ==
    Called("UpdateNetworkCidr") =>
        /\ Len(CallsTo("UpdateNetworkCidr")) = 1
        /\ CidrCall.ok =>
              /\ RequestNames(CidrCall) = <<"ChangeIPRange", "WaitFor", "GetByID">>
              /\ \A i \in 1..Len(CidrCall.reqs) : CidrCall.reqs[i].ok
        /\ ParseCIDR(CidrCall.cidr).err =>
              /\ CidrCall.reqs = <<>>
              /\ ~CidrCall.ok
        /\ \A i \in 1..Len(CidrCall.reqs) :
              ~CidrCall.reqs[i].ok => /\ i = Len(CidrCall.reqs)
                                      /\ ~CidrCall.ok
        /\ ~CidrCall.ok => /\ pass.err
                           /\ ~WentOnWithNetwork
        /\ \A i \in 1..Len(CidrCall.reqs) :
              RequestNames(CidrCall)[i] =
                  <<"ChangeIPRange", "WaitFor", "GetByID">>[i]
\* a pass changed the range of a network: the call went through its three
\* requests and returned the network the pass then mirrored
C33_Witness ==
    /\ Called("UpdateNetworkCidr")
    /\ CidrCall.ok
    /\ Len(CidrCall.reqs) = 3
    /\ WentOnWithNetwork
    /\ pass.preExt.ipRange # ext.ipRange
    /\ IPNetString(ext.ipRange) = rec.status.ipRange

(* ------------------------------- C34 --------------------------------- *)
\* the last call was a call of CreateZone
CreateZoneCalled == pass.kind = "zone"

\* C34 (CreateZone result contract): when the create request and the wait
\* for its action succeed, CreateZone returns the created zone and a nil
\* error; when the create request or the wait fails, it returns a non-nil
\* error; it never returns a nil zone together with a nil error.
C34_CreateZoneContract ==
    CreateZoneCalled =>
        /\ (~pass.createFails /\ ~pass.waitFails) =>
                /\ pass.out.zone.exists
                /\ pass.out.zone = ext
                /\ pass.out.err = NoError
        /\ (pass.createFails \/ pass.waitFails) => pass.out.err # NoError
        /\ ~(~pass.out.zone.exists /\ pass.out.err = NoError)
\* the create request and the wait succeeded, the zone exists at the
\* provider, and CreateZone returned neither a zone nor an error
C34_Witness ==
    /\ CreateZoneCalled
    /\ ~pass.createFails /\ ~pass.waitFails
    /\ ext.exists
    /\ ~pass.out.zone.exists
    /\ pass.out.err = NoError

(* ------------------------------- C36 --------------------------------- *)
\* the last call was a call of a NetworkManager method
ManagerCalled == pass.kind = "manager"
\* the methods that take an id, and those that take a name
ByIdMethods == {"GetNetworkById", "UpdateNetwork", "DeleteNetwork"}
ByNameMethods == {"GetNetworkByName", "CreateNetwork"}
\* the argument passes the method's guard
ValidInput ==
    \/ pass.op \in ByIdMethods /\ pass.id > 0
    \/ pass.op \in ByNameMethods /\ pass.name # ""

\* C36 (NetworkManager input guards): GetNetworkById, UpdateNetwork and
\* DeleteNetwork called with an id that is not positive return the invalid
\* network ID error, GetNetworkByName and CreateNetwork called with an empty
\* name return the network name is required error, in each case without a
\* call on the client; with valid input the method calls the client once,
\* with its own argument, and returns the client's network and error as
\* they are.
C36_ManagerInputGuards ==
    ManagerCalled =>
        /\ (pass.op \in ByIdMethods /\ pass.id <= 0) =>
                /\ pass.out.err = InvalidNetworkID
                /\ ~pass.out.network.exists
                /\ pass.out.delegated = <<>>
        /\ (pass.op \in ByNameMethods /\ pass.name = "") =>
                /\ pass.out.err = NameRequired
                /\ ~pass.out.network.exists
                /\ pass.out.delegated = <<>>
        /\ ValidInput =>
                /\ pass.out.delegated =
                        <<Delegated(pass.op, pass.id, pass.name)>>
                /\ pass.out.err = pass.answer.err
                /\ pass.op # "DeleteNetwork" =>
                        pass.out.network = pass.answer.network
\* GetNetworkById was called with id 0 on a client that would have answered
\* with a network, and refused without asking it
C36_Witness ==
    /\ ManagerCalled
    /\ pass.op = "GetNetworkById" /\ pass.id = 0
    /\ pass.answer.network.exists /\ pass.answer.err = NoError
    /\ pass.out.err = InvalidNetworkID
    /\ pass.out.delegated = <<>>

(* ------------------------------- C35 --------------------------------- *)
\* the last pass was a live pass, not under read-only, on a network record
\* whose spec.ipRange does not parse
MalformedCidrPass ==
    /\ pass.kind = "live" /\ pass.pre.crd = "HcloudNetwork"
    /\ ParseCIDR(pass.pre.spec.ipRange).err
    /\ ~IsReadOnly(pass.pre.policy)
\* every call of the last pass but the one that was handed the CIDR went well
OtherCallsOk ==
    \A i \in 1..Len(pass.calls) :
        pass.calls[i].op \notin {"CreateNetwork", "UpdateNetworkCidr"}
            => pass.calls[i].ok

\* C35 (malformed CIDR): a live pass under a policy other than read-only on
\* a record whose spec.ipRange does not parse returns an error; no network
\* is created and no change of range is requested from the provider; and
\* when its other calls succeed it hands the CIDR to CreateNetwork or
\* UpdateNetworkCidr, which refuses it, and the persisted Available
\* condition is False/Failed at the record's generation with the watermark
\* left where it was. This holds for every such pass, so also for a pass
\* that follows one that failed this way.
C35_MalformedCidr ==
    MalformedCidrPass =>
        /\ pass.err
        /\ \A i \in 1..Len(pass.calls) :
              /\ pass.calls[i].op = "CreateNetwork" => ~pass.calls[i].ok
              /\ pass.calls[i].op = "UpdateNetworkCidr" =>
                    /\ ~pass.calls[i].ok
                    /\ pass.calls[i].reqs = <<>>
        /\ ext.exists <=> pass.preExt.exists
        /\ ext.exists => /\ ext.id = pass.preExt.id
                         /\ ext.ipRange = pass.preExt.ipRange
        /\ OtherCallsOk =>
              /\ Called("CreateNetwork") \/ Called("UpdateNetworkCidr")
              /\ AvailableOf(rec.status).status = "False"
              /\ AvailableOf(rec.status).reason = "Failed"
              /\ AvailableOf(rec.status).observedGeneration = rec.generation
              /\ rec.status.observedGeneration =
                    pass.pre.status.observedGeneration
\* a pass failed on the malformed CIDR after an earlier pass had failed on
\* it and persisted Failed
C35_Witness ==
    /\ MalformedCidrPass /\ OtherCallsOk
    /\ AvailableOf(pass.pre.status).reason = "Failed"
    /\ HasOwnToken(pass.pre.finalizers)
    /\ Called("CreateNetwork")
    /\ pass.err
    /\ AvailableOf(rec.status).reason = "Failed"
    /\ ~ext.exists

(* ------------------------------- C37 --------------------------------- *)
\* the last pass was a live pass of the network reconciler that did not
\* start under read-only
LiveManagingPass ==
    /\ pass.kind = "live" /\ pass.pre.crd = "HcloudNetwork"
    /\ ~IsReadOnly(pass.pre.policy)
\* the token was on the stored record when the i-th call of the last pass
\* was made: it was there before the pass, or an earlier call of the pass
\* wrote it
TokenPersistedBefore(i) ==
    \/ HasOwnToken(pass.pre.finalizers)
    \/ \E j \in 1..(i - 1) :
         /\ pass.calls[j].op = "Update.AddFinalizer"
         /\ pass.calls[j].ok
\* the write of the annotation default or of the finalizer failed
MetadataWriteFailed ==
    \E i \in 1..Len(pass.calls) :
        /\ pass.calls[i].op \in {"Update.Annotation", "Update.AddFinalizer"}
        /\ ~pass.calls[i].ok

\* C37 (finalizer before create): in a live pass under a policy other than
\* read-only, CreateNetwork, UpdateNetworkLabels and UpdateNetworkCidr are
\* called only after the controller's finalizer token was persisted on the
\* record, and the token is on the stored record when the pass ends; when
\* the write of the annotation default or of the finalizer fails, the pass
\* returns the error and has made no provider call.
C37_FinalizerBeforeCreate ==
    LiveManagingPass =>
        /\ \A i \in 1..Len(pass.calls) :
              pass.calls[i].op \in
                    {"CreateNetwork", "UpdateNetworkLabels", "UpdateNetworkCidr"}
                => /\ TokenPersistedBefore(i)
                   /\ HasOwnToken(rec.finalizers)
        /\ MetadataWriteFailed =>
              /\ pass.err
              /\ Len(ProviderCalls) = 0
              /\ ext = pass.preExt
\* a first pass wrote the finalizer and then created the network
C37_Witness ==
    /\ LiveManagingPass
    /\ ~HasOwnToken(pass.pre.finalizers)
    /\ Called("Update.AddFinalizer")
    /\ FirstCall("Update.AddFinalizer") < FirstCall("CreateNetwork")
    /\ CallsTo("CreateNetwork")[1].ok
    /\ HasOwnToken(rec.finalizers)
    /\ ext.exists

(* ------------------------------- C38 --------------------------------- *)
\* the last pass, a deletion pass under policy manage, took the controller's
\* token off the record
ReleasedUnderManage == Released /\ pass.pre.policy = "manage"

\* C38 (no leaked external resource under manage): whenever a deletion pass
\* under policy manage removes the finalizer token, no network the
\* controller created for the record still exists, whatever calls failed in
\* earlier passes. Nobody but the controller creates a network of the
\* record's name here, so a network that exists is one it created.
C38_NoLeakUnderManage ==
    ReleasedUnderManage => ~ext.exists
\* the token was taken off a record whose status never got the id of the
\* network an earlier pass created: the pass that created it stopped at the
\* status write, so the deletion pass asked the provider nothing
C38_Witness ==
    /\ ReleasedUnderManage
    /\ ext.exists /\ ext.name = pass.pre.spec.name
    /\ pass.pre.status.externalId = 0
    /\ pass.pre.status.observedGeneration = 0
    /\ AvailableOf(pass.pre.status).reason = "Progressing"
    /\ ~Called("GetNetworkById") /\ ~Called("DeleteNetwork")
    /\ ~pass.err

(* ------------------------------- C39 --------------------------------- *)
\* the persisted watermark
Watermark == rec.status.observedGeneration
\* the step is a pass that ended with True/Ready persisted and no error
StepEndsReady ==
    /\ pass'.kind = "live" /\ pass'.pre = rec
    /\ ~pass'.err
    /\ AvailableOf(rec'.status).status = "True"
    /\ AvailableOf(rec'.status).reason = "Ready"
    /\ pass'.calls[Len(pass'.calls)].op = "Status.Update"
    /\ pass'.calls[Len(pass'.calls)].ok

\* C39 (observedGeneration is a monotonic watermark): as long as the record
\* is in the store, over passes, spec edits and deletion requests, the
\* persisted status.observedGeneration never exceeds the record's
\* generation, never decreases, and changes only in a step that is a pass
\* ending with Available=True/Ready.
C39_MonotonicWatermark ==
    /\ [](rec.exists => Watermark <= rec.generation)
    /\ [][(rec.exists /\ rec'.exists) =>
            /\ Watermark' >= Watermark
            /\ Watermark' # Watermark => StepEndsReady]_vars
\* the watermark moved from the first generation to the second: a pass
\* applied an edited spec after an earlier pass had applied the first one
C39_Witness ==
    /\ rec.exists /\ pass.kind = "live"
    /\ pass.pre.status.observedGeneration = 1
    /\ pass.pre.generation = 2
    /\ Watermark = 2
    /\ AvailableOf(rec.status).reason = "Ready"

(* --------------------------- C40: quiescence -------------------------- *)
\* the last step was a pass that returned no error
PassSucceeded == pass.kind # "none" /\ ~pass.err
\* the last pass released the last finalizer of a record under deletion and
\* the store erased the record
PassErased == pass.kind # "none" /\ pass.pre.exists /\ ~rec.exists
\* the step puts the key into the empty queue
StepEnqueues == ~pass.queued /\ pass'.queued
\* the step changes the generation of a record that stays in the store
StepChangesGeneration ==
    rec.exists /\ rec'.exists /\ rec'.generation # rec.generation

\* C40 as the specification states it: the key is enqueued only by store
\* events that change the record's generation, and after a pass without
\* error the queue is empty, whatever the pass wrote.
C40_QuiescenceAsStated ==
    /\ [](PassSucceeded => ~pass.queued)
    /\ [][StepEnqueues => StepChangesGeneration]_vars

\* C40 (quiescence), amended: a pass runs only for a queued key; the key is
\* enqueued only by a step that changes the record's generation or erases
\* the record; after a pass without error that left the record in the store
\* the queue is empty, whatever status, annotation or finalizer the pass
\* wrote; a pass that erased the record leaves the key queued, and the pass
\* that then finds the record absent changes nothing and empties the queue.
C40_Quiescence ==
    /\ []((PassSucceeded /\ ~PassErased) => ~pass.queued)
    /\ [](PassErased => pass.queued)
    /\ [](pass.kind = "absent" => (~pass.queued /\ ~rec.exists))
    /\ [][pass'.kind # "none" => pass.queued]_vars
    /\ [][StepEnqueues => (StepChangesGeneration \/ (rec.exists /\ ~rec'.exists))]_vars
\* a live pass wrote the default annotation, the finalizer and the status
\* of a fresh record, returned no error, and the queue is empty
C40_Witness ==
    /\ pass.kind = "live" /\ ~pass.err
    /\ pass.pre.policy = NoPolicy /\ rec.policy # NoPolicy
    /\ ~HasOwnToken(pass.pre.finalizers) /\ HasOwnToken(rec.finalizers)
    /\ rec.status # pass.pre.status
    /\ rec.generation = pass.pre.generation
    /\ ~pass.queued

====
